---- MODULE Spec2Model ----
(***************************************************************************)
(* Verification model of agrona-rust: the hash containers                  *)
(* (agrona-collections: hashing.rs, int_hash_map.rs, int_hash_set.rs) and  *)
(* the atomic buffer and idle strategies (agrona-concurrent:               *)
(* atomic_buffer.rs, idle_strategy.rs), and the byte buffers (agrona-core: *)
(* buffer/).                                                               *)
(*                                                                         *)
(* A Vec of length n is a function with domain 0..n-1.  A u32 is the pair  *)
(* <<hi, lo>> of its 16-bit halves, because u32 values do not fit the      *)
(* integers of the model checker; all u32 arithmetic wraps modulo 2^32.    *)
(* Option<V> is <<>> for None and <<v>> for Some(v).                       *)
(***************************************************************************)
EXTENDS Integers, Sequences, FiniteSets, TLC

VARIABLES
    map,      \* IntHashMap<i32>: [keys, values, size, resize_threshold, mask]
    set,      \* IntHashSet: [keys, size, resize_threshold, mask]
    op,       \* the last call made on both containers and the path it took in
              \* the map: [name, key, value, index, resized, len], len being
              \* len() before the call
    ret,      \* what the last IntHashMap call returned (Option<V>)
    set_ret,  \* what the last IntHashSet call returned (bool)
    live,     \* history: the abstract key -> value map the calls so far denote
    grow,     \* the size, capacity and resize_threshold of a map being filled
    abuf,     \* an UnsafeBuffer, or the AtomicBuffer over one: [capacity,
              \* bytes], bytes a function on byte offsets
    aop,      \* the last call on the buffer: its name, arguments and result
    threads,  \* the threads sharing an AtomicBuffer or an idle strategy:
              \* thread -> its position and what its calls returned
    mem,      \* shared memory under release/acquire ordering: the writes made
              \* to each slot and what each thread is bound to see of them
    idle      \* the idle strategies: the fields of a BackoffIdleStrategy and
              \* of a ControllableIdleStrategy

\* the variables of the containers and of the concurrent components
collection_vars == <<map, set, op, ret, set_ret, live, grow>>
concurrent_vars == <<abuf, aop, threads, mem, idle>>

vars == <<map, set, op, ret, set_ret, live, grow, abuf, aop, threads, mem, idle>>

----------------------------------------------------------------------------
(* Bounds of the model.                                                    *)

\* number of keys of KeyPool the calls draw from, each with any value
NumKeys == 5
\* number of keys of KeyPool the calls draw from when every value is 1
NumWideKeys == 6
\* values are 1..MaxVal; 0 is V::default()
MaxVal == 2
\* with_capacity hints are 0..MaxHint
MaxHint == 9

\* Keys chosen for their real hash: at capacity 8 their ideal slots are
\* 7, 7, 6, 0, 6, 7, 0, 5 and at capacity 16 they are 7, 15, 14, 0, 14, 7, 0, 13,
\* so probe chains collide and wrap from the last slot to slot 0.
KeyPool == <<-2, 17, 2, 0, 8, 28, 18, 1, 10, 32, 33, 19>>

\* the sequential fill inserts (i, 2i) for i in 0..FillN-1; its first TrackN
\* inserts are made on the map with its arrays
FillN == 1000
TrackN == 12
\* a fill observed near a resize starts at most GrowWindow inserts before the
\* threshold and runs for GrowSteps inserts
GrowWindow == 4
GrowSteps == 8
\* the capacities observed near a resize are 2^4 .. 2^MaxGrowExp
MaxGrowExp == 24

\* the AtomicBuffer has AtomicCapacity bytes and receives MaxAtomicCalls calls
AtomicCapacity == 12
MaxAtomicCalls == 2
MaxOrderedCalls == 3

\* NumThreads threads each make Increments calls of get_and_add_u64(0, 1)
NumThreads == 3
Increments == 4

\* the producer publishes MaxPublish messages
MaxPublish == 4

\* a BackoffIdleStrategy is built with max_spins in 0..MaxSpins, max_yields
\* in 0..MaxYields and park durations of 1..MaxPark nanoseconds
MaxSpins == 2
MaxYields == 2
MaxPark == 4
\* and of 0..MaxParkHigh times 2^63 nanoseconds more
MaxParkHigh == 2
\* a run of consecutive idle(0) calls is followed for MaxRun calls
MaxRun == 8

\* the ring buffer of the producer/consumer example has RingBufferSize bytes
\* (16 for head and tail, 8 for each slot) and carries RingMessages messages
RingBufferSize == 40
RingMessages == 5

\* a thread makes MaxIdleCalls calls of ControllableIdleStrategy::idle while
\* another makes MaxControlCalls calls of park and unpark
MaxIdleCalls == 3
MaxControlCalls == 3

\* an UnsafeBuffer has BufCapacity bytes, and AsciiCapacity bytes where it
\* holds numbers in ASCII
BufCapacity == 10
AsciiCapacity == 22
LongTail == 64
\* a table that takes the reserved key doubles at most MaxDoublings times
MaxDoublings == 1
\* keys of KeyPool called together with the reserved key
NumSentinelKeys == 3

Keys == {KeyPool[i] : i \in 1..NumKeys}
Vals == 1..MaxVal
WideKeys == {KeyPool[i] : i \in 1..NumWideKeys}
WideVals == {1}
Hints == 0..MaxHint

----------------------------------------------------------------------------
(* Machine arithmetic.                                                     *)

RECURSIVE Pow2(_)
Pow2(n) == IF n = 0 THEN 1 ELSE 2 * Pow2(n - 1)

\* a & b on non-negative integers
RECURSIVE BitAnd(_, _)
BitAnd(a, b) ==
    IF a = 0 \/ b = 0 THEN 0
    ELSE (a % 2) * (b % 2) + 2 * BitAnd(a \div 2, b \div 2)

\* a ^ b on non-negative integers
RECURSIVE BitXor(_, _)
BitXor(a, b) ==
    IF a = 0 THEN b
    ELSE IF b = 0 THEN a
    ELSE ((a + b) % 2) + 2 * BitXor(a \div 2, b \div 2)

\* value as u32 (two's complement) as <<hi, lo>>
AsU32(value) ==
    IF value >= 0
    THEN <<value \div 65536, value % 65536>>
    ELSE LET w == (value + 2147483647) + 1   \* value + 2^31, in 0..2^31-1
         IN  <<(w \div 65536) + 32768, w % 65536>>

\* x ^ y on u32
Xor32(x, y) == <<BitXor(x[1], y[1]), BitXor(x[2], y[2])>>

\* x >> n on u32, for 0 < n <= 16
Shr32(x, n) ==
    <<x[1] \div Pow2(n),
      (x[1] % Pow2(n)) * Pow2(16 - n) + (x[2] \div Pow2(n))>>

\* the low and high 16-bit halves of the 32-bit product a * b of two
\* 16-bit numbers, computed bytewise so that no intermediate exceeds 2^25
MulLo16(a, b) ==
    LET p0 == a * (b % 256)
        p1 == a * (b \div 256)
        t  == p0 + (p1 % 256) * 256
    IN  t % 65536

MulHi16(a, b) ==
    LET p0 == a * (b % 256)
        p1 == a * (b \div 256)
        t  == p0 + (p1 % 256) * 256
    IN  (p1 \div 256) + (t \div 65536)

\* x.wrapping_mul(c) on u32
WrappingMul32(x, c) ==
    <<(MulHi16(x[2], c[2]) + MulLo16(x[1], c[2]) + MulLo16(x[2], c[1])) % 65536,
      MulLo16(x[2], c[2])>>

\* usize::next_power_of_two: the smallest power of two >= n
RECURSIVE NextPow2From(_, _)
NextPow2From(p, n) == IF p >= n THEN p ELSE NextPow2From(2 * p, n)

next_power_of_two(n) == NextPow2From(1, n)

Max(a, b) == IF a >= b THEN a ELSE b

----------------------------------------------------------------------------
(* hashing.rs                                                              *)

\* 0x45d9f3b
FAST_INT_HASH_MULT == <<1117, 40763>>
\* 0x85ebca6b
MIX_HASH_MULT_1 == <<34283, 51819>>
\* 0xc2b2ae35
MIX_HASH_MULT_2 == <<49842, 44597>>

fast_int_hash(value) ==
    LET x0 == AsU32(value)
        x1 == WrappingMul32(Xor32(Shr32(x0, 16), x0), FAST_INT_HASH_MULT)
        x2 == WrappingMul32(Xor32(Shr32(x1, 16), x1), FAST_INT_HASH_MULT)
    IN  Xor32(Shr32(x2, 16), x2)

mix_hash(hash) ==
    LET h1 == Xor32(hash, Shr32(hash, 16))
        h2 == WrappingMul32(h1, MIX_HASH_MULT_1)
        h3 == Xor32(h2, Shr32(h2, 13))
        h4 == WrappingMul32(h3, MIX_HASH_MULT_2)
    IN  Xor32(h4, Shr32(h4, 16))

----------------------------------------------------------------------------
(* int_hash_map.rs                                                         *)

MISSING_VALUE == -2147483647 - 1
MIN_CAPACITY == 8
\* DEFAULT_LOAD_FACTOR: f32 = 0.67 is the f32 nearest to 0.67, which is
\* LOAD_FACTOR_MANTISSA / 2^24
LOAD_FACTOR_MANTISSA == 11240735
\* V::default() for the integer values of the model
DefaultValue == 0

None == <<>>
Some(v) == <<v>>

\* ResizeThreshold with the product taken exactly: floor(capacity * 0.67)
ResizeThreshold_exact(capacity) ==
    (capacity \div 100) * 67 + ((capacity % 100) * 67) \div 100

\* (capacity as f32 * DEFAULT_LOAD_FACTOR) as usize, for a capacity that is a
\* power of two: the f32 product of a power of two is exact, the cast truncates
ResizeThreshold(capacity) ==
    IF capacity <= 16777216
    THEN LOAD_FACTOR_MANTISSA \div (16777216 \div capacity)
    ELSE LOAD_FACTOR_MANTISSA * (capacity \div 16777216)

\* hash & mask for a u32 hash and a usize mask
MaskHash(hash, mask) ==
    BitAnd(hash[2], mask % 65536) + 65536 * BitAnd(hash[1], mask \div 65536)

hash_key(key) == mix_hash(fast_int_hash(key))

\* hash_key tabulated once for every key the calls use
HashedKeys == Keys \cup WideKeys \cup {MISSING_VALUE} \cup (0..(TrackN - 1))
HashKeyTable == [key \in HashedKeys |-> hash_key(key)]

\* Self::hash_key(key) & self.mask
IdealIndex(key, mask) == MaskHash(HashKeyTable[key], mask)

VecLen(vec) == Cardinality(DOMAIN vec)

IntHashMap_with_capacity(initial_capacity) ==
    LET capacity == next_power_of_two(Max(initial_capacity, MIN_CAPACITY))
    IN  [keys             |-> [i \in 0..(capacity - 1) |-> MISSING_VALUE],
         values           |-> [i \in 0..(capacity - 1) |-> DefaultValue],
         size             |-> 0,
         resize_threshold |-> ResizeThreshold(capacity),
         mask             |-> capacity - 1]

IntHashMap_new == IntHashMap_with_capacity(MIN_CAPACITY)

IntHashMap_len(m) == m.size

IntHashMap_capacity(m) == VecLen(m.keys)

\* the probe step that compares with the key before it tests for the sentinel
RECURSIVE IntHashMap_probe_key_first(_, _, _)
IntHashMap_probe_key_first(m, key, index) ==
    LET existing_key == m.keys[index]
    IN  IF existing_key = key THEN <<index, TRUE>>
        ELSE IF existing_key = MISSING_VALUE THEN <<index, FALSE>>
        ELSE IntHashMap_probe_key_first(m, key, BitAnd(index + 1, m.mask))

\* the probe loop of find_index, from slot index
RECURSIVE IntHashMap_probe(_, _, _)
IntHashMap_probe(m, key, index) ==
    LET existing_key == m.keys[index]
    IN  IF existing_key = MISSING_VALUE THEN <<index, FALSE>>
        ELSE IF existing_key = key THEN <<index, TRUE>>
        ELSE IntHashMap_probe(m, key, BitAnd(index + 1, m.mask))

IntHashMap_find_index(m, key) ==
    IntHashMap_probe(m, key, IdealIndex(key, m.mask))

IntHashMap_get(m, key) ==
    LET fi == IntHashMap_find_index(m, key)
    IN  IF fi[2] THEN Some(m.values[fi[1]]) ELSE None

IntHashMap_contains_key(m, key) == IntHashMap_find_index(m, key)[2]

RECURSIVE IntHashMap_insert(_, _, _)
RECURSIVE IntHashMap_resize(_)
RECURSIVE IntHashMap_reinsert(_, _, _, _)

\* the for loop of resize: reinsert the old slots i, i+1, ... into m
IntHashMap_reinsert(m, old_keys, old_values, i) ==
    IF i >= VecLen(old_keys) THEN m
    ELSE IF old_keys[i] # MISSING_VALUE
    THEN IntHashMap_reinsert(
             IntHashMap_insert(m, old_keys[i], old_values[i]).map,
             old_keys, old_values, i + 1)
    ELSE IntHashMap_reinsert(m, old_keys, old_values, i + 1)

\* resize whose loop starts at the second slot
IntHashMap_resize_skips_first(m) ==
    LET new_capacity == VecLen(m.keys) * 2
        emptied == [keys             |-> [i \in 0..(new_capacity - 1) |-> MISSING_VALUE],
                    values           |-> [i \in 0..(new_capacity - 1) |-> DefaultValue],
                    size             |-> 0,
                    resize_threshold |-> ResizeThreshold(new_capacity),
                    mask             |-> new_capacity - 1]
    IN  IntHashMap_reinsert(emptied, m.keys, m.values, 1)

IntHashMap_resize(m) ==
    LET new_capacity == VecLen(m.keys) * 2
        emptied == [keys             |-> [i \in 0..(new_capacity - 1) |-> MISSING_VALUE],
                    values           |-> [i \in 0..(new_capacity - 1) |-> DefaultValue],
                    size             |-> 0,
                    resize_threshold |-> ResizeThreshold(new_capacity),
                    mask             |-> new_capacity - 1]
    IN  IntHashMap_reinsert(emptied, m.keys, m.values, 0)

\* insert that counts a replaced key as a new one
IntHashMap_insert_counts_replace(m, key, value) ==
    LET m1 == IF m.size >= m.resize_threshold THEN IntHashMap_resize(m) ELSE m
        fi == IntHashMap_find_index(m1, key)
        index == fi[1]
    IN  IF fi[2]
        THEN [map |-> [m1 EXCEPT !.values[index] = value, !.size = @ + 1],
              ret |-> Some(m1.values[index])]
        ELSE [map |-> [m1 EXCEPT !.keys[index] = key,
                                 !.values[index] = value,
                                 !.size = @ + 1],
              ret |-> None]

\* insert that returns the value it stored instead of the one it replaced
IntHashMap_insert_returns_new(m, key, value) ==
    LET m1 == IF m.size >= m.resize_threshold THEN IntHashMap_resize(m) ELSE m
        fi == IntHashMap_find_index(m1, key)
        index == fi[1]
    IN  IF fi[2]
        THEN [map |-> [m1 EXCEPT !.values[index] = value],
              ret |-> Some(value)]
        ELSE [map |-> [m1 EXCEPT !.keys[index] = key,
                                 !.values[index] = value,
                                 !.size = @ + 1],
              ret |-> None]

\* insert without the resize at the threshold
IntHashMap_insert_never_resizes(m, key, value) ==
    LET fi == IntHashMap_find_index(m, key)
        index == fi[1]
    IN  IF fi[2]
        THEN [map |-> [m EXCEPT !.values[index] = value],
              ret |-> Some(m.values[index])]
        ELSE [map |-> [m EXCEPT !.keys[index] = key,
                                !.values[index] = value,
                                !.size = @ + 1],
              ret |-> None]

\* returns [map |-> the map afterwards, ret |-> the Option<V> returned]
IntHashMap_insert(m, key, value) ==
    LET m1 == IF m.size >= m.resize_threshold THEN IntHashMap_resize(m) ELSE m
        fi == IntHashMap_find_index(m1, key)
        index == fi[1]
    IN  IF fi[2]
        THEN [map |-> [m1 EXCEPT !.values[index] = value],
              ret |-> Some(m1.values[index])]
        ELSE [map |-> [m1 EXCEPT !.keys[index] = key,
                                 !.values[index] = value,
                                 !.size = @ + 1],
              ret |-> None]

\* should_move_entry without the case of an ideal slot beyond the wrap
IntHashMap_should_move_entry_no_wrap(deleted_index, current_index, ideal_index) ==
    IF deleted_index < current_index
    THEN ideal_index <= deleted_index
    ELSE ideal_index <= deleted_index /\ ideal_index > current_index

IntHashMap_should_move_entry(deleted_index, current_index, ideal_index) ==
    IF deleted_index < current_index
    THEN ideal_index <= deleted_index \/ ideal_index > current_index
    ELSE ideal_index <= deleted_index /\ ideal_index > current_index

RECURSIVE IntHashMap_compact_chain(_, _)
RECURSIVE IntHashMap_compact_walk(_, _, _)

\* the while loop of compact_chain, at slot index
IntHashMap_compact_walk(m, deleted_index, index) ==
    IF m.keys[index] = MISSING_VALUE THEN m
    ELSE LET key == m.keys[index]
             ideal_index == IdealIndex(key, m.mask)
         IN  IF IntHashMap_should_move_entry(deleted_index, index, ideal_index)
             THEN IntHashMap_compact_chain(
                      [m EXCEPT !.keys[deleted_index] = key,
                                !.values[deleted_index] = m.values[index],
                                !.values[index] = DefaultValue,
                                !.keys[index] = MISSING_VALUE],
                      index)
             ELSE IntHashMap_compact_walk(m, deleted_index,
                                          BitAnd(index + 1, m.mask))

IntHashMap_compact_chain(m, deleted_index) ==
    IntHashMap_compact_walk(m, deleted_index, BitAnd(deleted_index + 1, m.mask))

\* remove that reads the value after taking it out of the slot
IntHashMap_remove_returns_taken(m, key) ==
    LET fi == IntHashMap_find_index(m, key)
        index == fi[1]
    IN  IF ~fi[2] THEN [map |-> m, ret |-> None]
        ELSE [map |-> IntHashMap_compact_chain(
                          [m EXCEPT !.values[index] = DefaultValue,
                                    !.keys[index] = MISSING_VALUE,
                                    !.size = @ - 1],
                          index),
              ret |-> Some(DefaultValue)]

\* returns [map |-> the map afterwards, ret |-> the Option<V> returned]
IntHashMap_remove(m, key) ==
    LET fi == IntHashMap_find_index(m, key)
        index == fi[1]
    IN  IF ~fi[2] THEN [map |-> m, ret |-> None]
        ELSE [map |-> IntHashMap_compact_chain(
                          [m EXCEPT !.values[index] = DefaultValue,
                                    !.keys[index] = MISSING_VALUE,
                                    !.size = @ - 1],
                          index),
              ret |-> Some(m.values[index])]

\* clear that leaves the values array as it was
IntHashMap_clear_keeps_values(m) ==
    [m EXCEPT !.keys = [i \in DOMAIN m.keys |-> MISSING_VALUE],
              !.size = 0]

IntHashMap_clear(m) ==
    [m EXCEPT !.keys = [i \in DOMAIN m.keys |-> MISSING_VALUE],
              !.values = [i \in DOMAIN m.values |-> DefaultValue],
              !.size = 0]

\* IntHashMapIter::next with the iterator at position index:
\* [item |-> the Option<(key, value)> returned, index |-> the position afterwards]
RECURSIVE IntHashMapIter_next(_, _)
IntHashMapIter_next(m, index) ==
    IF index < VecLen(m.keys)
    THEN IF m.keys[index] # MISSING_VALUE
         THEN [item |-> Some(<<m.keys[index], m.values[index]>>),
               index |-> index + 1]
         ELSE IntHashMapIter_next(m, index + 1)
    ELSE [item |-> None, index |-> index]

\* IntHashMapKeys::next
RECURSIVE IntHashMapKeys_next(_, _)
IntHashMapKeys_next(m, index) ==
    IF index < VecLen(m.keys)
    THEN IF m.keys[index] # MISSING_VALUE
         THEN [item |-> Some(m.keys[index]), index |-> index + 1]
         ELSE IntHashMapKeys_next(m, index + 1)
    ELSE [item |-> None, index |-> index]

\* IntHashMapValues::next
RECURSIVE IntHashMapValues_next(_, _)
IntHashMapValues_next(m, index) ==
    IF index < VecLen(m.keys)
    THEN IF m.keys[index] # MISSING_VALUE
         THEN [item |-> Some(m.values[index]), index |-> index + 1]
         ELSE IntHashMapValues_next(m, index + 1)
    ELSE [item |-> None, index |-> index]

\* the items an iterator created at position 0 yields until next is None
RECURSIVE IntHashMapIter_collect(_, _)
IntHashMapIter_collect(m, index) ==
    LET n == IntHashMapIter_next(m, index)
    IN  IF n.item = None THEN <<>>
        ELSE <<n.item[1]>> \o IntHashMapIter_collect(m, n.index)

RECURSIVE IntHashMapKeys_collect(_, _)
IntHashMapKeys_collect(m, index) ==
    LET n == IntHashMapKeys_next(m, index)
    IN  IF n.item = None THEN <<>>
        ELSE <<n.item[1]>> \o IntHashMapKeys_collect(m, n.index)

RECURSIVE IntHashMapValues_collect(_, _)
IntHashMapValues_collect(m, index) ==
    LET n == IntHashMapValues_next(m, index)
    IN  IF n.item = None THEN <<>>
        ELSE <<n.item[1]>> \o IntHashMapValues_collect(m, n.index)

IntHashMap_iter(m) == IntHashMapIter_collect(m, 0)
IntHashMap_keys(m) == IntHashMapKeys_collect(m, 0)
IntHashMap_values(m) == IntHashMapValues_collect(m, 0)

----------------------------------------------------------------------------
(* int_hash_set.rs                                                         *)

\* with_capacity without the rounding up to a power of two
IntHashSet_with_capacity_no_round(initial_capacity) ==
    LET capacity == Max(initial_capacity, MIN_CAPACITY)
    IN  [keys             |-> [i \in 0..(capacity - 1) |-> MISSING_VALUE],
         size             |-> 0,
         resize_threshold |-> ResizeThreshold(capacity),
         mask             |-> capacity - 1]

IntHashSet_with_capacity(initial_capacity) ==
    LET capacity == next_power_of_two(Max(initial_capacity, MIN_CAPACITY))
    IN  [keys             |-> [i \in 0..(capacity - 1) |-> MISSING_VALUE],
         size             |-> 0,
         resize_threshold |-> ResizeThreshold(capacity),
         mask             |-> capacity - 1]

IntHashSet_new == IntHashSet_with_capacity(MIN_CAPACITY)

IntHashSet_len(s) == s.size

IntHashSet_capacity(s) == VecLen(s.keys)

\* the probe loop of find_index, from slot index
RECURSIVE IntHashSet_probe(_, _, _)
IntHashSet_probe(s, key, index) ==
    LET existing_key == s.keys[index]
    IN  IF existing_key = MISSING_VALUE THEN <<index, FALSE>>
        ELSE IF existing_key = key THEN <<index, TRUE>>
        ELSE IntHashSet_probe(s, key, BitAnd(index + 1, s.mask))

IntHashSet_find_index(s, key) ==
    IntHashSet_probe(s, key, IdealIndex(key, s.mask))

\* contains that looks at the ideal slot of the key only
IntHashSet_contains_ideal_only(s, key) ==
    s.keys[IdealIndex(key, s.mask)] = key

IntHashSet_contains(s, key) == IntHashSet_find_index(s, key)[2]

RECURSIVE IntHashSet_insert(_, _)
RECURSIVE IntHashSet_resize(_)
RECURSIVE IntHashSet_reinsert(_, _, _)

\* the for loop of resize: reinsert the old slots i, i+1, ... into s
IntHashSet_reinsert(s, old_keys, i) ==
    IF i >= VecLen(old_keys) THEN s
    ELSE IF old_keys[i] # MISSING_VALUE
    THEN IntHashSet_reinsert(IntHashSet_insert(s, old_keys[i]).set,
                             old_keys, i + 1)
    ELSE IntHashSet_reinsert(s, old_keys, i + 1)

\* resize that computes resize_threshold from the old capacity
IntHashSet_resize_old_threshold(s) ==
    LET new_capacity == VecLen(s.keys) * 2
        emptied == [keys             |-> [i \in 0..(new_capacity - 1) |-> MISSING_VALUE],
                    size             |-> 0,
                    resize_threshold |-> ResizeThreshold(VecLen(s.keys)),
                    mask             |-> new_capacity - 1]
    IN  IntHashSet_reinsert(emptied, s.keys, 0)

IntHashSet_resize(s) ==
    LET new_capacity == VecLen(s.keys) * 2
        emptied == [keys             |-> [i \in 0..(new_capacity - 1) |-> MISSING_VALUE],
                    size             |-> 0,
                    resize_threshold |-> ResizeThreshold(new_capacity),
                    mask             |-> new_capacity - 1]
    IN  IntHashSet_reinsert(emptied, s.keys, 0)

\* insert that resizes only once size is above the threshold
IntHashSet_insert_late_resize(s, key) ==
    LET s1 == IF s.size > s.resize_threshold THEN IntHashSet_resize(s) ELSE s
        fi == IntHashSet_find_index(s1, key)
        index == fi[1]
    IN  IF ~fi[2]
        THEN [set |-> [s1 EXCEPT !.keys[index] = key, !.size = @ + 1],
              ret |-> TRUE]
        ELSE [set |-> s1, ret |-> FALSE]

\* returns [set |-> the set afterwards, ret |-> the bool returned]
IntHashSet_insert(s, key) ==
    LET s1 == IF s.size >= s.resize_threshold THEN IntHashSet_resize(s) ELSE s
        fi == IntHashSet_find_index(s1, key)
        index == fi[1]
    IN  IF ~fi[2]
        THEN [set |-> [s1 EXCEPT !.keys[index] = key, !.size = @ + 1],
              ret |-> TRUE]
        ELSE [set |-> s1, ret |-> FALSE]

\* should_move_entry that leaves an entry whose ideal slot is the deleted one
IntHashSet_should_move_entry_strict(deleted_index, current_index, ideal_index) ==
    IF deleted_index < current_index
    THEN ideal_index < deleted_index \/ ideal_index > current_index
    ELSE ideal_index < deleted_index /\ ideal_index > current_index

IntHashSet_should_move_entry(deleted_index, current_index, ideal_index) ==
    IF deleted_index < current_index
    THEN ideal_index <= deleted_index \/ ideal_index > current_index
    ELSE ideal_index <= deleted_index /\ ideal_index > current_index

RECURSIVE IntHashSet_compact_chain(_, _)
RECURSIVE IntHashSet_compact_walk(_, _, _)

\* the while loop of compact_chain, at slot index
IntHashSet_compact_walk(s, deleted_index, index) ==
    IF s.keys[index] = MISSING_VALUE THEN s
    ELSE LET key == s.keys[index]
             ideal_index == IdealIndex(key, s.mask)
         IN  IF IntHashSet_should_move_entry(deleted_index, index, ideal_index)
             THEN IntHashSet_compact_chain(
                      [s EXCEPT !.keys[deleted_index] = key,
                                !.keys[index] = MISSING_VALUE],
                      index)
             ELSE IntHashSet_compact_walk(s, deleted_index,
                                          BitAnd(index + 1, s.mask))

IntHashSet_compact_chain(s, deleted_index) ==
    IntHashSet_compact_walk(s, deleted_index, BitAnd(deleted_index + 1, s.mask))

\* remove without the early return for a key that is not found
IntHashSet_remove_no_early_return(s, key) ==
    LET fi == IntHashSet_find_index(s, key)
        index == fi[1]
    IN  [set |-> IntHashSet_compact_chain(
                     [s EXCEPT !.keys[index] = MISSING_VALUE,
                               !.size = @ - 1],
                     index),
         ret |-> fi[2]]

\* remove that leaves size as it was
IntHashSet_remove_keeps_size(s, key) ==
    LET fi == IntHashSet_find_index(s, key)
        index == fi[1]
    IN  IF ~fi[2] THEN [set |-> s, ret |-> FALSE]
        ELSE [set |-> IntHashSet_compact_chain(
                          [s EXCEPT !.keys[index] = MISSING_VALUE],
                          index),
              ret |-> TRUE]

\* returns [set |-> the set afterwards, ret |-> the bool returned]
IntHashSet_remove(s, key) ==
    LET fi == IntHashSet_find_index(s, key)
        index == fi[1]
    IN  IF ~fi[2] THEN [set |-> s, ret |-> FALSE]
        ELSE [set |-> IntHashSet_compact_chain(
                          [s EXCEPT !.keys[index] = MISSING_VALUE,
                                    !.size = @ - 1],
                          index),
              ret |-> TRUE]

IntHashSet_clear(s) ==
    [s EXCEPT !.keys = [i \in DOMAIN s.keys |-> MISSING_VALUE],
              !.size = 0]

\* IntHashSetIter::next that never looks at slot 0
RECURSIVE IntHashSetIter_next_from_one(_, _)
IntHashSetIter_next_from_one(s, index) ==
    IF index = 0 THEN IntHashSetIter_next_from_one(s, 1)
    ELSE IF index < VecLen(s.keys)
    THEN IF s.keys[index] # MISSING_VALUE
         THEN [item |-> Some(s.keys[index]), index |-> index + 1]
         ELSE IntHashSetIter_next_from_one(s, index + 1)
    ELSE [item |-> None, index |-> index]

\* IntHashSetIter::next with the iterator at position index:
\* [item |-> the Option<i32> returned, index |-> the position afterwards]
RECURSIVE IntHashSetIter_next(_, _)
IntHashSetIter_next(s, index) ==
    IF index < VecLen(s.keys)
    THEN IF s.keys[index] # MISSING_VALUE
         THEN [item |-> Some(s.keys[index]), index |-> index + 1]
         ELSE IntHashSetIter_next(s, index + 1)
    ELSE [item |-> None, index |-> index]

RECURSIVE IntHashSetIter_collect(_, _)
IntHashSetIter_collect(s, index) ==
    LET n == IntHashSetIter_next(s, index)
    IN  IF n.item = None THEN <<>>
        ELSE <<n.item[1]>> \o IntHashSetIter_collect(s, n.index)

IntHashSet_iter(s) == IntHashSetIter_collect(s, 0)

----------------------------------------------------------------------------
(* atomic_buffer.rs                                                        *)
(*                                                                         *)
(* An integer in memory is the sequence of its bytes, least significant    *)
(* first: the target is little-endian, so LittleEndian is the native order *)
(* and the default accessors swap no bytes.  abuf.bytes are the bytes at    *)
(* the offsets from the data pointer: the buffer's own, 0..capacity-1, and *)
(* the bytes of the memory after them that an access wider than its        *)
(* bounds check reaches.  The data pointer of an owned buffer is 64-byte   *)
(* aligned, so the alignment of an access is that of its index.            *)
(* A call has a set of outcomes [buf, status, ret]; status is "ok", "err"  *)
(* (Err(IndexOutOfBounds)) or "panic"; ret is <<>> for (), <<b>> for the   *)
(* bool b, and the bytes of an integer.                                    *)

\* the u32 / u64 with a value the model's integers hold
U32(n) == [i \in 1..4 |-> (n \div Pow2(8 * (i - 1))) % 256]
U64(n) == [i \in 1..8 |-> IF i <= 3 THEN (n \div Pow2(8 * (i - 1))) % 256 ELSE 0]
U32_MAX == [i \in 1..4 |-> 255]

\* the carry into byte i of a + b
RECURSIVE Carry(_, _, _)
Carry(a, b, i) ==
    IF i = 1 THEN 0 ELSE (a[i - 1] + b[i - 1] + Carry(a, b, i - 1)) \div 256

\* a + b modulo 2^(8 * Len(a)): the addition of fetch_add
wrapping_add(a, b) == [i \in 1..Len(a) |-> (a[i] + b[i] + Carry(a, b, i)) % 256]

\* (v as u64) << 32 | v as u64
Packed(v) == v \o v
\* (w >> 32) as u32
HighU32(w) == SubSeq(w, 5, 8)

\* the n bytes at index, and memory with the bytes of v written at index
ReadLE(bytes, index, n) == [i \in 1..n |-> bytes[index + i - 1]]
WriteLE(bytes, index, v) ==
    [a \in DOMAIN bytes |->
        IF a >= index /\ a < index + Len(v) THEN v[a - index + 1] ELSE bytes[a]]

\* bounds_check(index, length) is Ok
AtomicBuffer_bounds_check(b, index, length) == index + length <= b.capacity

AtomicOk(b, r) == [buf |-> b, status |-> "ok", ret |-> r]
AtomicErr(b) == [buf |-> b, status |-> "err", ret |-> <<>>]
AtomicPanic(b) == [buf |-> b, status |-> "panic", ret |-> <<>>]

\* &*(ptr as *mut AtomicU64) at an index that is no multiple of 8 is a
\* misaligned dereference: a build with debug assertions panics there, any
\* other build goes on to make the 8-byte access
MisalignedU64(b, index) == IF index % 8 # 0 THEN {AtomicPanic(b)} ELSE {}

AtomicBuffer_get_volatile_u32(b, index) ==
    IF ~AtomicBuffer_bounds_check(b, index, 4) THEN {AtomicErr(b)}
    ELSE {AtomicOk(b, ReadLE(b.bytes, index, 4))}

AtomicBuffer_put_volatile_u32(b, index, value) ==
    IF ~AtomicBuffer_bounds_check(b, index, 4) THEN {AtomicErr(b)}
    ELSE {AtomicOk([b EXCEPT !.bytes = WriteLE(@, index, value)], <<>>)}

AtomicBuffer_get_volatile_u64(b, index) ==
    IF ~AtomicBuffer_bounds_check(b, index, 8) THEN {AtomicErr(b)}
    ELSE {AtomicOk(b, ReadLE(b.bytes, index, 8))}

AtomicBuffer_put_volatile_u64(b, index, value) ==
    IF ~AtomicBuffer_bounds_check(b, index, 8) THEN {AtomicErr(b)}
    ELSE {AtomicOk([b EXCEPT !.bytes = WriteLE(@, index, value)], <<>>)}

\* compare_exchange_weak on the AtomicU64 at index, against expected packed
\* into both halves; the weak exchange may fail although the values are equal
AtomicBuffer_compare_and_set_u32(b, index, expected, update) ==
    IF ~AtomicBuffer_bounds_check(b, index, 4) THEN {AtomicErr(b)}
    ELSE LET current == ReadLE(b.bytes, index, 8)
             stored  == [b EXCEPT !.bytes = WriteLE(@, index, Packed(update))]
         IN  (IF current = Packed(expected)
              THEN {AtomicOk(stored, <<TRUE>>), AtomicOk(b, <<FALSE>>)}
              ELSE {AtomicOk(b, <<FALSE>>)})
             \cup MisalignedU64(b, index)

\* fetch_add on the AtomicU64 at index of delta packed into both halves;
\* returns the upper half of the old word
AtomicBuffer_get_and_add_u32(b, index, delta) ==
    IF ~AtomicBuffer_bounds_check(b, index, 4) THEN {AtomicErr(b)}
    ELSE LET old_packed == ReadLE(b.bytes, index, 8)
             added == [b EXCEPT !.bytes =
                          WriteLE(@, index, wrapping_add(old_packed, Packed(delta)))]
         IN  {AtomicOk(added, HighU32(old_packed))} \cup MisalignedU64(b, index)

\* get_and_add_u64 that stores delta instead of adding it
AtomicBuffer_get_and_add_u64_stores_delta(b, index, delta) ==
    IF ~AtomicBuffer_bounds_check(b, index, 8) THEN {AtomicErr(b)}
    ELSE LET old == ReadLE(b.bytes, index, 8)
             added == [b EXCEPT !.bytes = WriteLE(@, index, delta)]
         IN  {AtomicOk(added, old)} \cup MisalignedU64(b, index)

AtomicBuffer_get_and_add_u64(b, index, delta) ==
    IF ~AtomicBuffer_bounds_check(b, index, 8) THEN {AtomicErr(b)}
    ELSE LET old == ReadLE(b.bytes, index, 8)
             added == [b EXCEPT !.bytes = WriteLE(@, index, wrapping_add(old, delta))]
         IN  {AtomicOk(added, old)} \cup MisalignedU64(b, index)

----------------------------------------------------------------------------
(* atomic_buffer.rs, on memory shared by threads.                          *)
(*                                                                         *)
(* mem[index] is the sequence of the writes made to the 8-byte slot at     *)
(* index, oldest first, each [value, view].  A view maps every slot to the *)
(* position of the oldest write of it that a thread may still read; a read *)
(* returns any write from there on.  A write made by                       *)
(* AtomicU64::store(Release) carries the view of its thread, for an        *)
(* acquire load to take over; ptr::write_volatile carries none and         *)
(* ptr::read_volatile takes none over: they are plain accesses that the    *)
(* compiler and the processor keep in order only with accesses of the same *)
(* slot.                                                                   *)

\* the view that binds to nothing
NoView(m) == [index \in DOMAIN m |-> 1]

\* a call on shared memory results in [mem, view, ret]
\* put_volatile_u64: bounds check, ptr::write_volatile
Shared_put_volatile_u64(m, view, index, value) ==
    LET at == Len(m[index]) + 1
    IN  [mem  |-> [m EXCEPT ![index] = Append(@, [value |-> value, view |-> NoView(m)])],
         view |-> [view EXCEPT ![index] = at],
         ret  |-> <<>>]

\* put_ordered_u64: bounds check, AtomicU64::store(write_value, Release)
Shared_put_ordered_u64(m, view, index, value) ==
    LET at == Len(m[index]) + 1
        released == [view EXCEPT ![index] = at]
    IN  [mem  |-> [m EXCEPT ![index] = Append(@, [value |-> value, view |-> released])],
         view |-> released,
         ret  |-> <<>>]

\* get_volatile_u64: bounds check, ptr::read_volatile; the set of results
Shared_get_volatile_u64(m, view, index) ==
    { [mem  |-> m,
       view |-> [view EXCEPT ![index] = at],
       ret  |-> m[index][at].value] : at \in view[index]..Len(m[index]) }

----------------------------------------------------------------------------
(* idle_strategy.rs                                                        *)
(*                                                                         *)
(* A Duration is [high, low]: high * 2^63 + low nanoseconds, with low far  *)
(* below 2^62, so that doubling low never carries into high.  A call of    *)
(* idle results in a set of [strategy, phase, slept], one for each outcome *)
(* a build can produce: the strategy afterwards, the branch taken ("reset",*)
(* "spin", "yield", "park", or "panic" when the call slept and then        *)
(* panicked) and the Duration slept.                                       *)

Min(a, b) == IF a <= b THEN a ELSE b

Nanos(high, low) == [high |-> high, low |-> low]

\* Duration::from_nanos(n) for n < 2^31
Duration_from_nanos(n) == Nanos(0, n)

Duration_lt(a, b) == a.high < b.high \/ (a.high = b.high /\ a.low < b.low)

Duration_le(a, b) == ~Duration_lt(b, a)

\* k times the Duration d, exactly
Duration_times(d, k) == Nanos(d.high * k, d.low * k)

\* std::cmp::min
Duration_min(a, b) == IF Duration_le(a, b) THEN a ELSE b

\* d.as_nanos() as u64: the u128 truncated to its low 64 bits
Duration_as_nanos_as_u64(d) == Nanos(d.high % 2, d.low)

\* the outcomes of n * 2 on the u64 n: the product, or past u64::MAX a panic
\* where overflow checks are compiled in and the wrapped product where not
u64_mul_2(n) ==
    IF n.high = 0
    THEN {[panics |-> FALSE, product |-> Nanos(0, n.low * 2)]}
    ELSE {[panics |-> FALSE, product |-> Nanos(0, n.low * 2)],
          [panics |-> TRUE, product |-> n]}

BackoffIdleStrategy_new(max_spins, max_yields, min_park_duration, max_park_duration) ==
    [max_yields        |-> max_yields,
     max_spins         |-> max_spins,
     min_park_duration |-> min_park_duration,
     max_park_duration |-> max_park_duration,
     yields            |-> 0,
     spins             |-> 0,
     park_duration     |-> min_park_duration]

\* reset that leaves park_duration as it was
BackoffIdleStrategy_reset_keeps_park(b) ==
    [b EXCEPT !.spins = 0, !.yields = 0]

BackoffIdleStrategy_reset(b) ==
    [b EXCEPT !.spins = 0, !.yields = 0, !.park_duration = b.min_park_duration]

\* idle whose park doubles without the cap of max_park_duration
BackoffIdleStrategy_idle_uncapped(b, work_count) ==
    IF work_count > 0
    THEN {[strategy |-> BackoffIdleStrategy_reset(b), phase |-> "reset",
           slept |-> Nanos(0, 0)]}
    ELSE IF b.spins < b.max_spins
    THEN {[strategy |-> [b EXCEPT !.spins = @ + 1], phase |-> "spin",
           slept |-> Nanos(0, 0)]}
    ELSE IF b.yields < b.max_yields
    THEN {[strategy |-> [b EXCEPT !.yields = @ + 1], phase |-> "yield",
           slept |-> Nanos(0, 0)]}
    ELSE {IF m.panics
          THEN [strategy |-> b, phase |-> "panic", slept |-> b.park_duration]
          ELSE [strategy |-> [b EXCEPT !.park_duration = m.product],
                phase |-> "park", slept |-> b.park_duration]
          : m \in u64_mul_2(Duration_as_nanos_as_u64(b.park_duration))}

BackoffIdleStrategy_idle(b, work_count) ==
    IF work_count > 0
    THEN {[strategy |-> BackoffIdleStrategy_reset(b), phase |-> "reset",
           slept |-> Nanos(0, 0)]}
    ELSE IF b.spins < b.max_spins
    THEN {[strategy |-> [b EXCEPT !.spins = @ + 1], phase |-> "spin",
           slept |-> Nanos(0, 0)]}
    ELSE IF b.yields < b.max_yields
    THEN {[strategy |-> [b EXCEPT !.yields = @ + 1], phase |-> "yield",
           slept |-> Nanos(0, 0)]}
    ELSE {IF m.panics
          THEN [strategy |-> b, phase |-> "panic", slept |-> b.park_duration]
          ELSE [strategy |-> [b EXCEPT !.park_duration =
                                    Duration_min(m.product, b.max_park_duration)],
                phase |-> "park", slept |-> b.park_duration]
          : m \in u64_mul_2(Duration_as_nanos_as_u64(b.park_duration))}

RUNNING == 0
PARKING == 3

\* BackoffIdleStrategy::default(): 10 spins, 5 yields, 1 ns to 1 ms
BackoffIdleStrategy_default ==
    BackoffIdleStrategy_new(10, 5, Duration_from_nanos(1), Duration_from_nanos(1000000))

ControllableIdleStrategy_new ==
    [status |-> RUNNING, backoff_strategy |-> BackoffIdleStrategy_default]

\* park that stores YIELDING
ControllableIdleStrategy_park_yielding(c) == [c EXCEPT !.status = 2]

ControllableIdleStrategy_park(c) == [c EXCEPT !.status = PARKING]

ControllableIdleStrategy_unpark(c) == [c EXCEPT !.status = RUNNING]

\* idle up to where it returns or blocks: phase is "busy_spin" (returns),
\* "thread_park" (the thread is inside thread::park()) or the phase of the
\* backoff strategy (returns, or panics)
ControllableIdleStrategy_idle(c, work_count) ==
    IF c.status = RUNNING
    THEN {[strategy |-> c, phase |-> "busy_spin"]}
    ELSE IF c.status = PARKING
    THEN {[strategy |-> c, phase |-> "thread_park"]}
    ELSE {[strategy |-> [c EXCEPT !.backoff_strategy = r.strategy],
           phase |-> r.phase]
          : r \in BackoffIdleStrategy_idle(c.backoff_strategy, work_count)}

ControllableIdleStrategy_reset(c) ==
    [c EXCEPT !.backoff_strategy = BackoffIdleStrategy_reset(@)]

----------------------------------------------------------------------------
(* buffer/mod.rs, buffer/direct_buffer.rs, buffer/mutable_buffer.rs,       *)
(* buffer/unsafe_buffer.rs                                                 *)
(*                                                                         *)
(* An UnsafeBuffer is [capacity, bytes], bytes a function on the offsets   *)
(* 0..capacity-1 from the data pointer.  A usize that the integers of the  *)
(* model hold is itself; a negative integer n is the usize 2^64 + n, so    *)
(* -1 is usize::MAX.  An integer value in memory is the sequence of its    *)
(* bytes, least significant first, as for the atomic buffer; a &str or a   *)
(* &[u8] is the sequence of its bytes.                                     *)
(* A call has a set of outcomes [buf, status, err, ret]: status is "ok",   *)
(* "err", "panic", or "undefined" for an access outside the allocation     *)
(* (undefined behaviour: the build decides what happens); err is the       *)
(* AgronaError; ret is <<>> for (), <<n>> for the number n, or the bytes   *)
(* of an integer or a string.                                              *)

BOUNDS_CHECK_ENABLED == TRUE

NoError == [kind |-> "none", index |-> 0, length |-> 0, capacity |-> 0]
IndexOutOfBounds(index, length, capacity) ==
    [kind |-> "IndexOutOfBounds", index |-> index, length |-> length,
     capacity |-> capacity]
AsciiNumberFormat ==
    [kind |-> "AsciiNumberFormat", index |-> 0, length |-> 0, capacity |-> 0]

Ok(b, r) == [buf |-> b, status |-> "ok", err |-> NoError, ret |-> r]
Err(b, e) == [buf |-> b, status |-> "err", err |-> e, ret |-> <<>>]
Panic(b) == [buf |-> b, status |-> "panic", err |-> NoError, ret |-> <<>>]
Undefined(b) == [buf |-> b, status |-> "undefined", err |-> NoError, ret |-> <<>>]

\* a > b on usize
usize_gt(a, b) == IF (a < 0) = (b < 0) THEN a > b ELSE a < 0
\* a + b exceeds usize::MAX
usize_add_overflows(a, b) ==
    IF a < 0 /\ b < 0 THEN TRUE ELSE (a < 0 \/ b < 0) /\ a + b >= 0

\* buffer::bounds_check: "ok", "err", or "panic" where index + length
\* overflows in a build with overflow checks; a build without them goes on
\* with the wrapped sum
bounds_check(index, length, capacity) ==
    (IF usize_add_overflows(index, length) THEN {"panic"} ELSE {})
    \cup {IF BOUNDS_CHECK_ENABLED /\ usize_gt(index + length, capacity)
          THEN "err" ELSE "ok"}

\* the window index .. index + length - 1 lies inside the allocation
InAllocation(b, index, length) ==
    index >= 0 /\ length >= 0 /\ index + length <= b.capacity

\* check_bounds(index, length)? followed by an access of the window whose
\* outcomes are access
UnsafeBuffer_check_bounds(b, index, length, access) ==
    UNION { IF c = "panic" THEN {Panic(b)}
            ELSE IF c = "err"
            THEN {Err(b, IndexOutOfBounds(index, length, b.capacity))}
            ELSE IF InAllocation(b, index, length) THEN access
            ELSE {Undefined(b)}
          : c \in bounds_check(index, length, b.capacity) }

\* byteorder: B::read_uN(bytes) and B::write_uN(bytes, value) for
\* B = "LittleEndian" or "BigEndian"; the value is its bytes, least
\* significant first
Reverse(s) == [i \in 1..Len(s) |-> s[Len(s) + 1 - i]]
ByteOrder_read(bytes, byte_order) ==
    IF byte_order = "LittleEndian" THEN bytes ELSE Reverse(bytes)
ByteOrder_write(value, byte_order) ==
    IF byte_order = "LittleEndian" THEN value ELSE Reverse(value)
\* v.swap_bytes()
swap_bytes(v) == Reverse(v)

\* the accessors of a type that is n bytes wide
get_with_order(b, index, n, byte_order) ==
    UnsafeBuffer_check_bounds(b, index, n,
        {Ok(b, ByteOrder_read(ReadLE(b.bytes, index, n), byte_order))})
put_with_order(b, index, value, n, byte_order) ==
    UnsafeBuffer_check_bounds(b, index, n,
        {Ok([b EXCEPT !.bytes = WriteLE(@, index, ByteOrder_write(value, byte_order))],
            <<>>)})

UnsafeBuffer_get_u8(b, index) ==
    UnsafeBuffer_check_bounds(b, index, 1, {Ok(b, ReadLE(b.bytes, index, 1))})
UnsafeBuffer_get_u16_with_order(b, index, byte_order) == get_with_order(b, index, 2, byte_order)
UnsafeBuffer_get_i16_with_order(b, index, byte_order) == get_with_order(b, index, 2, byte_order)
UnsafeBuffer_get_u32_with_order(b, index, byte_order) == get_with_order(b, index, 4, byte_order)
UnsafeBuffer_get_i32_with_order(b, index, byte_order) == get_with_order(b, index, 4, byte_order)
UnsafeBuffer_get_u64_with_order(b, index, byte_order) == get_with_order(b, index, 8, byte_order)
UnsafeBuffer_get_i64_with_order(b, index, byte_order) == get_with_order(b, index, 8, byte_order)

UnsafeBuffer_put_u8(b, index, value) ==
    UnsafeBuffer_check_bounds(b, index, 1,
        {Ok([b EXCEPT !.bytes = WriteLE(@, index, value)], <<>>)})
UnsafeBuffer_put_u16_with_order(b, index, value, byte_order) == put_with_order(b, index, value, 2, byte_order)
UnsafeBuffer_put_i16_with_order(b, index, value, byte_order) == put_with_order(b, index, value, 2, byte_order)
\* put_u32_with_order that writes the bytes in native order whatever B is
UnsafeBuffer_put_u32_native(b, index, value, byte_order) == put_with_order(b, index, value, 4, "LittleEndian")
UnsafeBuffer_put_u32_with_order(b, index, value, byte_order) == put_with_order(b, index, value, 4, byte_order)
UnsafeBuffer_put_i32_with_order(b, index, value, byte_order) == put_with_order(b, index, value, 4, byte_order)
UnsafeBuffer_put_u64_with_order(b, index, value, byte_order) == put_with_order(b, index, value, 8, byte_order)
UnsafeBuffer_put_i64_with_order(b, index, value, byte_order) == put_with_order(b, index, value, 8, byte_order)

\* the default accessors of DirectBuffer and MutableBuffer
DirectBuffer_get_u16(b, index) == UnsafeBuffer_get_u16_with_order(b, index, "LittleEndian")
DirectBuffer_get_i16(b, index) == UnsafeBuffer_get_i16_with_order(b, index, "LittleEndian")
DirectBuffer_get_u32(b, index) == UnsafeBuffer_get_u32_with_order(b, index, "LittleEndian")
DirectBuffer_get_i32(b, index) == UnsafeBuffer_get_i32_with_order(b, index, "LittleEndian")
DirectBuffer_get_u64(b, index) == UnsafeBuffer_get_u64_with_order(b, index, "LittleEndian")
DirectBuffer_get_i64(b, index) == UnsafeBuffer_get_i64_with_order(b, index, "LittleEndian")
MutableBuffer_put_u16(b, index, value) == UnsafeBuffer_put_u16_with_order(b, index, value, "LittleEndian")
MutableBuffer_put_i16(b, index, value) == UnsafeBuffer_put_i16_with_order(b, index, value, "LittleEndian")
MutableBuffer_put_u32(b, index, value) == UnsafeBuffer_put_u32_with_order(b, index, value, "LittleEndian")
MutableBuffer_put_i32(b, index, value) == UnsafeBuffer_put_i32_with_order(b, index, value, "LittleEndian")
MutableBuffer_put_u64(b, index, value) == UnsafeBuffer_put_u64_with_order(b, index, value, "LittleEndian")
MutableBuffer_put_i64(b, index, value) == UnsafeBuffer_put_i64_with_order(b, index, value, "LittleEndian")

\* the accessors by the name of their type
IntTypes == {"u16", "i16", "u32", "i32", "u64", "i64"}
WidthOf(T) ==
    IF T = "u8" THEN 1 ELSE IF T \in {"u16", "i16"} THEN 2
    ELSE IF T \in {"u32", "i32"} THEN 4 ELSE 8
get_T_with_order(T, b, index, byte_order) ==
    CASE T = "u16" -> UnsafeBuffer_get_u16_with_order(b, index, byte_order)
      [] T = "i16" -> UnsafeBuffer_get_i16_with_order(b, index, byte_order)
      [] T = "u32" -> UnsafeBuffer_get_u32_with_order(b, index, byte_order)
      [] T = "i32" -> UnsafeBuffer_get_i32_with_order(b, index, byte_order)
      [] T = "u64" -> UnsafeBuffer_get_u64_with_order(b, index, byte_order)
      [] T = "i64" -> UnsafeBuffer_get_i64_with_order(b, index, byte_order)
put_T_with_order(T, b, index, value, byte_order) ==
    CASE T = "u16" -> UnsafeBuffer_put_u16_with_order(b, index, value, byte_order)
      [] T = "i16" -> UnsafeBuffer_put_i16_with_order(b, index, value, byte_order)
      [] T = "u32" -> UnsafeBuffer_put_u32_with_order(b, index, value, byte_order)
      [] T = "i32" -> UnsafeBuffer_put_i32_with_order(b, index, value, byte_order)
      [] T = "u64" -> UnsafeBuffer_put_u64_with_order(b, index, value, byte_order)
      [] T = "i64" -> UnsafeBuffer_put_i64_with_order(b, index, value, byte_order)
get_T(T, b, index) ==
    CASE T = "u16" -> DirectBuffer_get_u16(b, index)
      [] T = "i16" -> DirectBuffer_get_i16(b, index)
      [] T = "u32" -> DirectBuffer_get_u32(b, index)
      [] T = "i32" -> DirectBuffer_get_i32(b, index)
      [] T = "u64" -> DirectBuffer_get_u64(b, index)
      [] T = "i64" -> DirectBuffer_get_i64(b, index)
put_T(T, b, index, value) ==
    CASE T = "u16" -> MutableBuffer_put_u16(b, index, value)
      [] T = "i16" -> MutableBuffer_put_i16(b, index, value)
      [] T = "u32" -> MutableBuffer_put_u32(b, index, value)
      [] T = "i32" -> MutableBuffer_put_i32(b, index, value)
      [] T = "u64" -> MutableBuffer_put_u64(b, index, value)
      [] T = "i64" -> MutableBuffer_put_i64(b, index, value)

UnsafeBuffer_get_bytes(b, index, length) ==
    UnsafeBuffer_check_bounds(b, index, length,
        {Ok(b, ReadLE(b.bytes, index, length))})

UnsafeBuffer_put_bytes(b, index, src) ==
    UnsafeBuffer_check_bounds(b, index, Len(src),
        {Ok([b EXCEPT !.bytes = WriteLE(@, index, src)], <<>>)})

\* the outcomes of next on the buffer of each "ok" outcome of first; an
\* outcome of first that is no "ok" is returned by the ? operator
AndThen(first, next(_)) ==
    UNION { IF o.status = "ok" THEN next(o) ELSE {o} : o \in first }

IsAscii(bytes) == \A i \in 1..Len(bytes) : bytes[i] <= 127

UnsafeBuffer_get_string_ascii_with_length(b, index, length) ==
    UnsafeBuffer_check_bounds(b, index, length,
        LET slice == ReadLE(b.bytes, index, length)
        IN  IF ~IsAscii(slice) THEN {Err(b, AsciiNumberFormat)}
            ELSE {Ok(b, slice)})

\* get_u32(index)? as usize for a length the integers of the model hold
LengthOf(header) == header[1] + 256 * header[2] + 65536 * header[3]

DirectBuffer_get_string_ascii(b, index) ==
    LET body(o) == UnsafeBuffer_get_string_ascii_with_length(
                       o.buf, index + 4, LengthOf(o.ret))
    IN  AndThen(DirectBuffer_get_u32(b, index), body)

UnsafeBuffer_put_string_ascii_without_length_range(b, index, value, value_offset, length) ==
    IF value_offset + length > Len(value)
    THEN {Err(b, IndexOutOfBounds(value_offset, length, Len(value)))}
    ELSE LET slice == SubSeq(value, value_offset + 1, value_offset + length)
         IN  IF ~IsAscii(slice) THEN {Err(b, AsciiNumberFormat)}
             ELSE LET done(o) == {Ok(o.buf, <<length>>)}
                  IN  AndThen(UnsafeBuffer_put_bytes(b, index, slice), done)

MutableBuffer_put_string_ascii_without_length(b, index, value) ==
    UnsafeBuffer_put_string_ascii_without_length_range(b, index, value, 0, Len(value))

MutableBuffer_put_string_ascii(b, index, value) ==
    LET length == Len(value)
        done(o) == {Ok(o.buf, <<4 + length>>)}
        body(o) == AndThen(MutableBuffer_put_string_ascii_without_length(
                               o.buf, index + 4, value), done)
    IN  AndThen(MutableBuffer_put_u32(b, index, U32(length)), body)

MutableBuffer_put_string_utf8(b, index, value) ==
    LET length == Len(value)
        done(o) == {Ok(o.buf, <<4 + length>>)}
        body(o) == AndThen(UnsafeBuffer_put_bytes(o.buf, index + 4, value), done)
    IN  AndThen(MutableBuffer_put_u32(b, index, U32(length)), body)

(* The ASCII number codecs.  An i32 is the integer itself, returned as     *)
(* <<v>>.  A u64, and the magnitude of an i64, is <<h, m, l>>, the number  *)
(* h * 10^18 + m * 10^9 + l with m, l < 10^9; an i64 is <<s, h, m, l>>     *)
(* with s = 1 for a negative number and s = 0 otherwise.                   *)

RECURSIVE Pow10(_)
Pow10(n) == IF n = 0 THEN 1 ELSE 10 * Pow10(n - 1)
Base == Pow10(9)

I32_MAX == (Pow2(30) - 1) + Pow2(30)
I32_MIN == (-I32_MAX) - 1
\* i32::MAX, i64::MAX and 2^63 as u64
I32_MAX_U64 == <<0, 2, 147483647>>
I64_MAX_U64 == <<9, 223372036, 854775807>>
I64_MIN_MAGNITUDE == <<9, 223372036, 854775808>>
I64_MIN == <<1>> \o I64_MIN_MAGNITUDE

u64_is_zero(r) == r = <<0, 0, 0>>
\* (r % 10) as u8
u64_rem10(r) == r[3] % 10
\* r / 10
u64_div10(r) ==
    <<r[1] \div 10,
      (r[1] % 10) * (Base \div 10) + (r[2] \div 10),
      (r[2] % 10) * (Base \div 10) + (r[3] \div 10)>>
\* r * 10 + d for a digit d
u64_mul10_add(r, d) ==
    <<r[1] * 10 + (r[2] \div (Base \div 10)),
      (r[2] % (Base \div 10)) * 10 + (r[3] \div (Base \div 10)),
      (r[3] % (Base \div 10)) * 10 + d>>
u64_gt(a, b) ==
    \/ a[1] > b[1]
    \/ a[1] = b[1] /\ a[2] > b[2]
    \/ a[1] = b[1] /\ a[2] = b[2] /\ a[3] > b[3]

\* value as u64 for an i32: a negative value is sign-extended to 2^64 + value
i32_as_u64(value) ==
    IF value >= 0 THEN <<0, value \div Base, value % Base>>
    ELSE LET low == 709551616 + value
             borrow == IF low >= 0 THEN 0 ELSE IF low + Base >= 0 THEN 1 ELSE 2
         IN  <<18, 446744073 - borrow, low + borrow * Base>>

\* value.abs() for an i32: i32::MIN has no absolute value in i32; a build
\* with overflow checks panics, a build without them returns i32::MIN
i32_abs(value) ==
    IF value = I32_MIN
    THEN {[panic |-> TRUE, value |-> 0], [panic |-> FALSE, value |-> I32_MIN]}
    ELSE {[panic |-> FALSE, value |-> IF value < 0 THEN -value ELSE value]}

\* value.abs() as u64 for an i64: i64::MIN wraps to itself, which is 2^63
i64_abs_as_u64(value) ==
    IF value = I64_MIN
    THEN {[panic |-> TRUE, value |-> <<0, 0, 0>>],
          [panic |-> FALSE, value |-> I64_MIN_MAGNITUDE]}
    ELSE {[panic |-> FALSE, value |-> Tail(value)]}

i64_is_negative(value) == value[1] = 1

\* the loop that writes the digits of remaining backwards from temp_index;
\* temp_buffer[i] of the source is temp_buffer[i + 1] here.  With no room
\* left, temp_index -= 1 underflows and the index is out of range of the
\* array: a panic in every build.
RECURSIVE write_digits(_, _, _)
write_digits(temp_buffer, temp_index, remaining) ==
    IF temp_index = 0
    THEN [panic |-> TRUE, temp_buffer |-> temp_buffer, temp_index |-> 0]
    ELSE LET written == [temp_buffer EXCEPT ![temp_index] = 48 + u64_rem10(remaining)]
             rest == u64_div10(remaining)
         IN  IF u64_is_zero(rest)
             THEN [panic |-> FALSE, temp_buffer |-> written,
                   temp_index |-> temp_index - 1]
             ELSE write_digits(written, temp_index - 1, rest)

\* the '-' put before the digits of a negative value
write_sign(d, negative) ==
    IF d.panic \/ ~negative THEN d
    ELSE IF d.temp_index = 0
    THEN [panic |-> TRUE, temp_buffer |-> d.temp_buffer, temp_index |-> 0]
    ELSE [panic |-> FALSE,
          temp_buffer |-> [d.temp_buffer EXCEPT ![d.temp_index] = 45],
          temp_index |-> d.temp_index - 1]

\* put_bytes(index, &temp_buffer[temp_index..])?; Ok(length)
put_temp_buffer(b, index, d) ==
    IF d.panic THEN {Panic(b)}
    ELSE LET length == Len(d.temp_buffer) - d.temp_index
             done(o) == {Ok(o.buf, <<length>>)}
         IN  AndThen(UnsafeBuffer_put_bytes(
                         b, index,
                         SubSeq(d.temp_buffer, d.temp_index + 1, Len(d.temp_buffer))),
                     done)

UnsafeBuffer_put_i32_ascii(b, index, value) ==
    UNION { IF a.panic THEN {Panic(b)}
            ELSE put_temp_buffer(b, index,
                     write_sign(write_digits([i \in 1..12 |-> 0], 12,
                                             i32_as_u64(a.value)),
                                value < 0))
          : a \in i32_abs(value) }

\* put_natural_i32_ascii that takes any value
UnsafeBuffer_put_natural_i32_ascii_unchecked(b, index, value) ==
    UnsafeBuffer_put_i32_ascii(b, index, value)

UnsafeBuffer_put_natural_i32_ascii(b, index, value) ==
    IF value < 0 THEN {Err(b, AsciiNumberFormat)}
    ELSE UnsafeBuffer_put_i32_ascii(b, index, value)

\* the loop of put_natural_padded_i32_ascii: <<>> when the digits do not fit
RECURSIVE write_padded(_, _, _)
write_padded(temp_buffer, temp_index, remaining) ==
    IF temp_index = 0 THEN <<>>
    ELSE LET written == [temp_buffer EXCEPT ![temp_index] = 48 + u64_rem10(remaining)]
             rest == u64_div10(remaining)
         IN  IF u64_is_zero(rest) THEN <<written>>
             ELSE write_padded(written, temp_index - 1, rest)

UnsafeBuffer_put_natural_padded_i32_ascii(b, index, length, value) ==
    IF value < 0 THEN {Err(b, AsciiNumberFormat)}
    ELSE LET padded == write_padded([i \in 1..length |-> 48], length,
                                    i32_as_u64(value))
         IN  IF padded = <<>> THEN {Err(b, AsciiNumberFormat)}
             ELSE UnsafeBuffer_put_bytes(b, index, padded[1])

\* the loop of put_natural_i32_ascii_from_end: one put_u8 for each digit
RECURSIVE write_from_end(_, _, _)
write_from_end(b, current_index, remaining) ==
    IF current_index = 0 THEN {Err(b, IndexOutOfBounds(0, 1, b.capacity))}
    ELSE LET rest == u64_div10(remaining)
             next(o) == IF u64_is_zero(rest) THEN {Ok(o.buf, <<current_index - 1>>)}
                        ELSE write_from_end(o.buf, current_index - 1, rest)
         IN  AndThen(UnsafeBuffer_put_u8(b, current_index - 1,
                                         <<48 + u64_rem10(remaining)>>),
                     next)

UnsafeBuffer_put_natural_i32_ascii_from_end(b, value, end_exclusive) ==
    IF value < 0 THEN {Err(b, AsciiNumberFormat)}
    ELSE write_from_end(b, end_exclusive, i32_as_u64(value))

UnsafeBuffer_put_natural_i64_ascii(b, index, value) ==
    IF i64_is_negative(value) THEN {Err(b, AsciiNumberFormat)}
    ELSE put_temp_buffer(b, index,
             write_digits([i \in 1..21 |-> 0], 21, Tail(value)))

UnsafeBuffer_put_i64_ascii(b, index, value) ==
    UNION { IF a.panic THEN {Panic(b)}
            ELSE put_temp_buffer(b, index,
                     write_sign(write_digits([i \in 1..21 |-> 0], 21, a.value),
                                i64_is_negative(value)))
          : a \in i64_abs_as_u64(value) }

\* the loop of the parsers over slice[i..]: result.checked_mul(10) and then
\* checked_add(digit), both within max; <<>> for an AsciiNumberFormat error
RECURSIVE parse_digits(_, _, _, _)
parse_digits(slice, i, result, max) ==
    IF i > Len(slice) THEN <<result>>
    ELSE IF slice[i] < 48 \/ slice[i] > 57 THEN <<>>
    ELSE LET next == u64_mul10_add(result, slice[i] - 48)
         IN  IF u64_gt(next, max) THEN <<>>
             ELSE parse_digits(slice, i + 1, next, max)

\* the i32 that a u64 within i32::MAX is
u64_as_i32(r) == r[2] * Base + r[3]

UnsafeBuffer_parse_natural_i32_ascii(b, index, length) ==
    UnsafeBuffer_check_bounds(b, index, length,
        LET parsed == parse_digits(ReadLE(b.bytes, index, length), 1,
                                   <<0, 0, 0>>, I32_MAX_U64)
        IN  IF parsed = <<>> THEN {Err(b, AsciiNumberFormat)}
            ELSE {Ok(b, <<u64_as_i32(parsed[1])>>)})

UnsafeBuffer_parse_natural_i64_ascii(b, index, length) ==
    UnsafeBuffer_check_bounds(b, index, length,
        LET parsed == parse_digits(ReadLE(b.bytes, index, length), 1,
                                   <<0, 0, 0>>, I64_MAX_U64)
        IN  IF parsed = <<>> THEN {Err(b, AsciiNumberFormat)}
            ELSE {Ok(b, <<0>> \o parsed[1])})

UnsafeBuffer_parse_i32_ascii(b, index, length) ==
    UnsafeBuffer_check_bounds(b, index, length,
        IF length = 0 THEN {Err(b, AsciiNumberFormat)}
        ELSE LET slice == ReadLE(b.bytes, index, length)
                 negative == slice[1] = 45
                 start_idx == IF negative THEN 1 ELSE 0
             IN  IF start_idx >= length THEN {Err(b, AsciiNumberFormat)}
                 ELSE LET parsed == parse_digits(slice, start_idx + 1,
                                                 <<0, 0, 0>>, I32_MAX_U64)
                      IN  IF parsed = <<>> THEN {Err(b, AsciiNumberFormat)}
                          ELSE {Ok(b, <<IF negative THEN -u64_as_i32(parsed[1])
                                        ELSE u64_as_i32(parsed[1])>>)})

UnsafeBuffer_parse_i64_ascii(b, index, length) ==
    UnsafeBuffer_check_bounds(b, index, length,
        IF length = 0 THEN {Err(b, AsciiNumberFormat)}
        ELSE LET slice == ReadLE(b.bytes, index, length)
                 negative == slice[1] = 45
                 start_idx == IF negative THEN 1 ELSE 0
             IN  IF start_idx >= length THEN {Err(b, AsciiNumberFormat)}
                 ELSE LET parsed == parse_digits(slice, start_idx + 1,
                                                 <<0, 0, 0>>, I64_MAX_U64)
                      IN  IF parsed = <<>> THEN {Err(b, AsciiNumberFormat)}
                          ELSE {Ok(b, <<IF negative /\ ~u64_is_zero(parsed[1])
                                        THEN 1 ELSE 0>> \o parsed[1])})

----------------------------------------------------------------------------
(* atomic_buffer.rs: the accessors that take a byte order, and the ordered *)
(* stores.  B::NATIVE_ENDIAN is true of LittleEndian on the little-endian  *)
(* target.  The ordered stores of both widths go through an AtomicU64 at   *)
(* index, after a bounds check of the width of the value.                  *)

NATIVE_ENDIAN(byte_order) == byte_order = "LittleEndian"

\* value, or value.swap_bytes() for an order that is not the native one
in_order(value, byte_order) ==
    IF NATIVE_ENDIAN(byte_order) THEN value ELSE swap_bytes(value)

\* ptr::read_volatile / write_volatile of an n-byte integer at an index that
\* is no multiple of n is a misaligned access: a build with debug assertions
\* panics there, any other build goes on to make the access
MisalignedVolatile(b, index, n) == IF index % n # 0 THEN {AtomicPanic(b)} ELSE {}

AtomicBuffer_get_volatile_u32_with_order(b, index, byte_order) ==
    IF ~AtomicBuffer_bounds_check(b, index, 4) THEN {AtomicErr(b)}
    ELSE LET value == ReadLE(b.bytes, index, 4)
         IN  {AtomicOk(b, in_order(value, byte_order))}
             \cup MisalignedVolatile(b, index, 4)

AtomicBuffer_put_volatile_u32_with_order(b, index, value, byte_order) ==
    IF ~AtomicBuffer_bounds_check(b, index, 4) THEN {AtomicErr(b)}
    ELSE LET write_value == in_order(value, byte_order)
         IN  {AtomicOk([b EXCEPT !.bytes = WriteLE(@, index, write_value)], <<>>)}
             \cup MisalignedVolatile(b, index, 4)

AtomicBuffer_get_volatile_u64_with_order(b, index, byte_order) ==
    IF ~AtomicBuffer_bounds_check(b, index, 8) THEN {AtomicErr(b)}
    ELSE LET value == ReadLE(b.bytes, index, 8)
         IN  {AtomicOk(b, in_order(value, byte_order))}
             \cup MisalignedVolatile(b, index, 8)

AtomicBuffer_put_volatile_u64_with_order(b, index, value, byte_order) ==
    IF ~AtomicBuffer_bounds_check(b, index, 8) THEN {AtomicErr(b)}
    ELSE LET write_value == in_order(value, byte_order)
         IN  {AtomicOk([b EXCEPT !.bytes = WriteLE(@, index, write_value)], <<>>)}
             \cup MisalignedVolatile(b, index, 8)

\* value as u64
u32_as_u64(value) == value \o <<0, 0, 0, 0>>

\* AtomicU64::store(write_value as u64, Release) at index
AtomicBuffer_put_ordered_u32_with_order(b, index, value, byte_order) ==
    IF ~AtomicBuffer_bounds_check(b, index, 4) THEN {AtomicErr(b)}
    ELSE LET write_value == u32_as_u64(in_order(value, byte_order))
         IN  {AtomicOk([b EXCEPT !.bytes = WriteLE(@, index, write_value)], <<>>)}
             \cup MisalignedU64(b, index)

AtomicBuffer_put_ordered_u64_with_order(b, index, value, byte_order) ==
    IF ~AtomicBuffer_bounds_check(b, index, 8) THEN {AtomicErr(b)}
    ELSE LET write_value == in_order(value, byte_order)
         IN  {AtomicOk([b EXCEPT !.bytes = WriteLE(@, index, write_value)], <<>>)}
             \cup MisalignedU64(b, index)

\* AtomicU64::fetch_add(increment, Release) at index, the old value dropped
AtomicBuffer_add_ordered_u64(b, index, increment) ==
    IF ~AtomicBuffer_bounds_check(b, index, 8) THEN {AtomicErr(b)}
    ELSE LET old == ReadLE(b.bytes, index, 8)
         IN  {AtomicOk([b EXCEPT !.bytes = WriteLE(@, index, wrapping_add(old, increment))],
                       <<>>)}
             \cup MisalignedU64(b, index)

\* put_ordered_u64(index, value): the LittleEndian store
AtomicBuffer_put_ordered_u64(b, index, value) ==
    AtomicBuffer_put_ordered_u64_with_order(b, index, value, "LittleEndian")

\* put_ordered_u32(index, value): the LittleEndian store
AtomicBuffer_put_ordered_u32(b, index, value) ==
    AtomicBuffer_put_ordered_u32_with_order(b, index, value, "LittleEndian")

----------------------------------------------------------------------------
(* mutable_buffer.rs, direct_buffer.rs, unsafe_buffer.rs: the string       *)
(* accessors on a buffer that may be larger than 2^32 bytes.               *)
(*                                                                         *)
(* A usize here is <<h, m, l>> for h * 2^32 + m * 2^16 + l, and the sizes  *)
(* stay below 2^48, so no sum of them overflows.  The bytes of a buffer,   *)
(* and of a string, are a sequence of runs [n, byte] of n equal bytes, no  *)
(* run empty and no two neighbours of the same byte.  A call has the       *)
(* outcomes [buf, status, err, ret] of the accessors above; ret is the     *)
(* usize, or the runs of the String, that it returns.                      *)

Limb == Pow2(16)
Size(n) == <<0, n \div Limb, n % Limb>>
size_add(a, b) ==
    LET l == a[3] + b[3]
        m == a[2] + b[2] + (l \div Limb)
    IN  <<a[1] + b[1] + (m \div Limb), m % Limb, l % Limb>>
size_gt(a, b) ==
    \/ a[1] > b[1]
    \/ a[1] = b[1] /\ a[2] > b[2]
    \/ a[1] = b[1] /\ a[2] = b[2] /\ a[3] > b[3]
\* a - b for a >= b
size_sub(a, b) ==
    LET l == a[3] - b[3]
        bl == IF l < 0 THEN 1 ELSE 0
        m == a[2] - b[2] - bl
        bm == IF m < 0 THEN 1 ELSE 0
    IN  <<a[1] - b[1] - bm, (m + Limb) % Limb, (l + Limb) % Limb>>

\* length as u32, in the bytes that put_u32 writes
size_as_u32(length) ==
    <<length[3] % 256, length[3] \div 256, length[2] % 256, length[2] \div 256>>
\* get_u32(index)? as usize
u32_as_size(value) == <<0, value[3] + 256 * value[4], value[1] + 256 * value[2]>>

Run(n, byte) == [n |-> n, byte |-> byte]

RECURSIVE RunsLen(_)
RunsLen(runs) ==
    IF runs = <<>> THEN Size(0) ELSE size_add(Head(runs).n, RunsLen(Tail(runs)))

\* the first n bytes of runs, and runs without them
RECURSIVE TakeRuns(_, _)
TakeRuns(runs, n) ==
    IF runs = <<>> \/ n = Size(0) THEN <<>>
    ELSE IF size_gt(Head(runs).n, n) THEN <<Run(n, Head(runs).byte)>>
    ELSE <<Head(runs)>> \o TakeRuns(Tail(runs), size_sub(n, Head(runs).n))
RECURSIVE DropRuns(_, _)
DropRuns(runs, n) ==
    IF runs = <<>> \/ n = Size(0) THEN runs
    ELSE IF size_gt(Head(runs).n, n)
    THEN <<Run(size_sub(Head(runs).n, n), Head(runs).byte)>> \o Tail(runs)
    ELSE DropRuns(Tail(runs), size_sub(n, Head(runs).n))

\* the same bytes with no empty run and no two neighbours of the same byte
RECURSIVE Normalize(_)
Normalize(runs) ==
    IF runs = <<>> THEN <<>>
    ELSE IF Head(runs).n = Size(0) THEN Normalize(Tail(runs))
    ELSE LET rest == Normalize(Tail(runs))
         IN  IF rest # <<>> /\ rest[1].byte = Head(runs).byte
             THEN <<Run(size_add(Head(runs).n, rest[1].n), rest[1].byte)>> \o Tail(rest)
             ELSE <<Head(runs)>> \o rest

\* the runs of a sequence of bytes, and the bytes of a few runs
RunsOf(bytes) == Normalize([i \in 1..Len(bytes) |-> Run(Size(1), bytes[i])])
RECURSIVE BytesOf(_)
BytesOf(runs) ==
    IF runs = <<>> THEN <<>>
    ELSE [i \in 1..Head(runs).n[3] |-> Head(runs).byte] \o BytesOf(Tail(runs))

\* the length bytes at index, and the memory with src written at index
ReadRuns(runs, index, length) == Normalize(TakeRuns(DropRuns(runs, index), length))
WriteRuns(runs, index, src) ==
    Normalize(TakeRuns(runs, index) \o src
              \o DropRuns(runs, size_add(index, RunsLen(src))))

check_bounds_runs(b, index, length, access) ==
    IF size_gt(size_add(index, length), b.capacity)
    THEN {Err(b, IndexOutOfBounds(index, length, b.capacity))}
    ELSE access

get_u32_runs(b, index) ==
    check_bounds_runs(b, index, Size(4),
        {Ok(b, BytesOf(ReadRuns(b.runs, index, Size(4))))})

put_u32_runs(b, index, value) ==
    check_bounds_runs(b, index, Size(4),
        {Ok([b EXCEPT !.runs = WriteRuns(@, index, RunsOf(value))], <<>>)})

put_bytes_runs(b, index, src) ==
    check_bounds_runs(b, index, RunsLen(src),
        {Ok([b EXCEPT !.runs = WriteRuns(@, index, src)], <<>>)})

IsAsciiRuns(runs) == \A i \in 1..Len(runs) : runs[i].byte <= 127

get_string_ascii_with_length_runs(b, index, length) ==
    check_bounds_runs(b, index, length,
        LET slice == ReadRuns(b.runs, index, length)
        IN  IF ~IsAsciiRuns(slice) THEN {Err(b, AsciiNumberFormat)}
            ELSE {Ok(b, slice)})

get_string_ascii_runs(b, index) ==
    LET body(o) == get_string_ascii_with_length_runs(
                       o.buf, size_add(index, Size(4)), u32_as_size(o.ret))
    IN  AndThen(get_u32_runs(b, index), body)

\* put_string_ascii_without_length_range(index, value, 0, value.len())
put_string_ascii_without_length_runs(b, index, value) ==
    LET length == RunsLen(value)
        done(o) == {Ok(o.buf, length)}
    IN  IF ~IsAsciiRuns(value) THEN {Err(b, AsciiNumberFormat)}
        ELSE AndThen(put_bytes_runs(b, index, value), done)

put_string_ascii_runs(b, index, value) ==
    LET length == RunsLen(value)
        done(o) == {Ok(o.buf, size_add(Size(4), length))}
        body(o) == AndThen(put_string_ascii_without_length_runs(
                               o.buf, size_add(index, Size(4)), value), done)
    IN  AndThen(put_u32_runs(b, index, size_as_u32(length)), body)

----------------------------------------------------------------------------
(* The containers under calls: one IntHashMap and one IntHashSet built     *)
(* with the same capacity hint receive the same sequence of insert, remove *)
(* and clear calls.  op records the call, the slot find_index returned to   *)
(* it and whether insert took its resize branch.                           *)

NoCall(name) ==
    [name |-> name, key |-> 0, value |-> 0, index |-> 0, resized |-> FALSE,
     len |-> 0]

\* the grow variable when no fill is running
GrowIdle == [size |-> 0, capacity |-> 0, resize_threshold |-> 0,
             tracked |-> FALSE, steps |-> 0]

\* the concurrent components when no call is made on them
NoBuffer == [capacity |-> 0, bytes |-> <<>>]
NoAtomicCall == [name |-> "none"]
NoThreads == <<>>
NoMemory == <<>>
NoIdle == <<>>

ConcurrentIdle ==
    /\ abuf = NoBuffer
    /\ aop = NoAtomicCall
    /\ threads = NoThreads
    /\ mem = NoMemory
    /\ idle = NoIdle

Init ==
    /\ \E hint \in Hints :
          /\ map = IntHashMap_with_capacity(hint)
          /\ set = IntHashSet_with_capacity(hint)
    /\ op = NoCall("new")
    /\ ret = None
    /\ set_ret = FALSE
    /\ live = <<>>
    /\ grow = GrowIdle
    /\ ConcurrentIdle

Insert(key, value) ==
    LET r == IntHashMap_insert(map, key, value)
        s == IntHashSet_insert(set, key)
    IN  /\ map' = r.map
        /\ ret' = r.ret
        /\ set' = s.set
        /\ set_ret' = s.ret
        /\ op' = [name |-> "insert", key |-> key, value |-> value,
                  index |-> IntHashMap_find_index(r.map, key)[1],
                  resized |-> (map.size >= map.resize_threshold),
                  len |-> IntHashMap_len(map)]
        /\ live' = [k \in (DOMAIN live) \cup {key} |->
                        IF k = key THEN value ELSE live[k]]
        /\ UNCHANGED <<grow, concurrent_vars>>

Remove(key) ==
    LET r == IntHashMap_remove(map, key)
        s == IntHashSet_remove(set, key)
    IN  /\ map' = r.map
        /\ ret' = r.ret
        /\ set' = s.set
        /\ set_ret' = s.ret
        /\ op' = [name |-> "remove", key |-> key, value |-> 0,
                  index |-> IntHashMap_find_index(map, key)[1],
                  resized |-> FALSE, len |-> IntHashMap_len(map)]
        /\ live' = [k \in (DOMAIN live) \ {key} |-> live[k]]
        /\ UNCHANGED <<grow, concurrent_vars>>

Clear ==
    /\ map' = IntHashMap_clear(map)
    /\ ret' = None
    /\ set' = IntHashSet_clear(set)
    /\ set_ret' = FALSE
    /\ op' = [NoCall("clear") EXCEPT !.len = IntHashMap_len(map)]
    /\ live' = <<>>
    /\ UNCHANGED <<grow, concurrent_vars>>

\* the calls with keys of K and values of V
NextOn(K, V) ==
    \/ \E key \in K, value \in V : Insert(key, value)
    \/ \E key \in K : Remove(key)
    \/ Clear

\* a few keys, each with any value
Next == NextOn(Keys, Vals)

Spec == Init /\ [][Next]_vars

\* more keys than a table of MIN_CAPACITY holds before it resizes, one value
WideNext == NextOn(WideKeys, WideVals)

WideSpec == Init /\ [][WideNext]_vars

\* the calls with the reserved key MISSING_VALUE among the keys.  resize ends
\* with debug_assert_eq!(self.size, old_size): it holds unless size counted
\* inserts of the reserved key, and then a build with debug assertions
\* panics, which ends the calls, and any other build goes on.
SentinelKeys == {MISSING_VALUE} \cup {KeyPool[i] : i \in 1..NumSentinelKeys}

\* the number of slots that hold a key
StoredKeys(keys) == Cardinality({i \in DOMAIN keys : keys[i] # MISSING_VALUE})

SentinelInit ==
    /\ map = IntHashMap_new
    /\ set = IntHashSet_new
    /\ op = NoCall("new")
    /\ ret = None
    /\ set_ret = FALSE
    /\ live = <<>>
    /\ grow = GrowIdle
    /\ ConcurrentIdle

SentinelInsert(key, value) ==
    LET resizes == map.size >= map.resize_threshold
    IN  /\ op.name # "panic"
        /\ resizes => VecLen(map.keys) < MIN_CAPACITY * Pow2(MaxDoublings)
        /\ \/ Insert(key, value)
           \/ /\ resizes
              /\ IntHashMap_resize(map).size # map.size
              /\ op' = [NoCall("panic") EXCEPT !.key = key, !.value = value,
                                               !.resized = TRUE,
                                               !.len = IntHashMap_len(map)]
              /\ UNCHANGED <<map, set, ret, set_ret, live, grow, concurrent_vars>>

SentinelRemove(key) == op.name # "panic" /\ Remove(key)

SentinelClear == op.name # "panic" /\ Clear

SentinelNext ==
    \/ \E key \in SentinelKeys, value \in WideVals : SentinelInsert(key, value)
    \/ \E key \in SentinelKeys : SentinelRemove(key)
    \/ SentinelClear

SentinelSpec == SentinelInit /\ [][SentinelNext]_vars

----------------------------------------------------------------------------
(* A fill: a map built by new() into which only absent keys are inserted.  *)
(* grow holds the size, capacity and resize_threshold of such a map; the   *)
(* keys and values arrays are left out of it, so that it can be observed   *)
(* at capacities up to 2^MaxGrowExp.  While grow.tracked, the map variable *)
(* is the same fill with its arrays: new() followed by insert(i, 2i) for   *)
(* i = 0, 1, 2, ..., TrackN - 1.                                           *)

\* insert of an absent key, on size, capacity and resize_threshold:
\* resize doubles the capacity, recomputes the threshold and, by its
\* debug_assert_eq!, ends with the size it began with
Grow_insert(g) ==
    LET g1 == IF g.size >= g.resize_threshold
              THEN [g EXCEPT !.capacity = g.capacity * 2,
                             !.resize_threshold = ResizeThreshold(g.capacity * 2)]
              ELSE g
    IN  [g1 EXCEPT !.size = @ + 1]

\* the fill right after new(), with FillN inserts to come
GrowNew(tracked) ==
    [size |-> IntHashMap_new.size,
     capacity |-> IntHashMap_capacity(IntHashMap_new),
     resize_threshold |-> IntHashMap_new.resize_threshold,
     tracked |-> tracked,
     steps |-> IF tracked THEN TrackN ELSE FillN]

\* the fill at capacity 2^e, at most GrowWindow inserts before its next
\* resize: its size is above the threshold of the capacity below, the size
\* at which the fill reached this capacity
GrowNear(e) ==
    LET capacity == Pow2(e)
    IN  [size |-> Max(ResizeThreshold(capacity \div 2) + 1,
                      ResizeThreshold(capacity) - GrowWindow),
         capacity |-> capacity,
         resize_threshold |-> ResizeThreshold(capacity),
         tracked |-> FALSE, steps |-> GrowSteps]

GrowInit ==
    /\ map = IntHashMap_new
    /\ set = IntHashSet_new
    /\ op = NoCall("new")
    /\ ret = None
    /\ set_ret = FALSE
    /\ live = <<>>
    /\ grow \in {GrowNew(TRUE), GrowNew(FALSE)}
                  \cup {GrowNear(e) : e \in 4..MaxGrowExp}
    /\ ConcurrentIdle

\* the next insert of the sequential fill, on the map and on grow
FillInsert ==
    /\ grow.tracked
    /\ grow.steps > 0
    /\ LET i == grow.size
           r == IntHashMap_insert(map, i, 2 * i)
       IN  /\ map' = r.map
           /\ ret' = r.ret
           /\ op' = [name |-> "insert", key |-> i, value |-> 2 * i,
                     index |-> IntHashMap_find_index(r.map, i)[1],
                     resized |-> (map.size >= map.resize_threshold),
                     len |-> IntHashMap_len(map)]
    /\ grow' = [Grow_insert(grow) EXCEPT !.steps = @ - 1]
    /\ UNCHANGED <<set, set_ret, live, concurrent_vars>>

\* the next insert of a fill observed without its arrays
GrowInsert ==
    /\ ~grow.tracked
    /\ grow.steps > 0
    /\ grow' = [Grow_insert(grow) EXCEPT !.steps = @ - 1]
    /\ UNCHANGED <<map, set, op, ret, set_ret, live, concurrent_vars>>

GrowNext == FillInsert \/ GrowInsert

GrowSpec == GrowInit /\ [][GrowNext]_vars

----------------------------------------------------------------------------
(* One thread calling the 32-bit operations of an AtomicBuffer.  new()     *)
(* allocates without initialising, so the buffer starts with any contents; *)
(* the model draws each 4-byte word of it, and of the memory after it,     *)
(* from AtomicInitVals.                                                    *)

AtomicVals == {U32(0), U32(42), U32(100)}
AtomicInitVals == {U32(0), U32(42)}
AtomicDeltas == {U32(50), U32_MAX}
\* the 4-byte aligned indices up to the first that is out of bounds
AtomicIndices == {4 * i : i \in 0..((AtomicCapacity + 3) \div 4)}
\* the offsets of abuf.bytes
AtomicOffsets == 0..(4 * ((AtomicCapacity + 3) \div 4) + 3)

AtomicBuffer_new(capacity, contents) ==
    [capacity |-> capacity,
     bytes |-> [a \in AtomicOffsets |-> contents[4 * (a \div 4)][(a % 4) + 1]]]

AtomicInit ==
    /\ map = IntHashMap_new
    /\ set = IntHashSet_new
    /\ op = NoCall("new")
    /\ ret = None
    /\ set_ret = FALSE
    /\ live = <<>>
    /\ grow = GrowIdle
    /\ \E contents \in [{4 * (a \div 4) : a \in AtomicOffsets} -> AtomicInitVals] :
          abuf = AtomicBuffer_new(AtomicCapacity, contents)
    /\ aop = [name |-> "new", index |-> 0, args |-> <<>>, status |-> "ok",
              ret |-> <<>>, calls |-> 0]
    /\ threads = NoThreads
    /\ mem = NoMemory
    /\ idle = NoIdle

\* a call with these outcomes is made and one of them happens; a panic ends
\* the thread
AtomicCall(name, index, args, outcomes) ==
    /\ aop.calls < MaxAtomicCalls
    /\ aop.status # "panic"
    /\ \E o \in outcomes :
          /\ abuf' = o.buf
          /\ aop' = [name |-> name, index |-> index, args |-> args,
                     status |-> o.status, ret |-> o.ret, calls |-> aop.calls + 1]
    /\ UNCHANGED <<collection_vars, threads, mem, idle>>

GetVolatileU32(index) ==
    AtomicCall("get_volatile_u32", index, <<>>,
               AtomicBuffer_get_volatile_u32(abuf, index))

PutVolatileU32(index, value) ==
    AtomicCall("put_volatile_u32", index, <<value>>,
               AtomicBuffer_put_volatile_u32(abuf, index, value))

CompareAndSetU32(index, expected, update) ==
    AtomicCall("compare_and_set_u32", index, <<expected, update>>,
               AtomicBuffer_compare_and_set_u32(abuf, index, expected, update))

GetAndAddU32(index, delta) ==
    AtomicCall("get_and_add_u32", index, <<delta>>,
               AtomicBuffer_get_and_add_u32(abuf, index, delta))

AtomicNext ==
    \/ \E index \in AtomicIndices : GetVolatileU32(index)
    \/ \E index \in AtomicIndices, value \in AtomicVals :
          PutVolatileU32(index, value)
    \/ \E index \in AtomicIndices, expected \in AtomicVals, update \in AtomicVals :
          CompareAndSetU32(index, expected, update)
    \/ \E index \in AtomicIndices, delta \in AtomicDeltas :
          GetAndAddU32(index, delta)

AtomicSpec == AtomicInit /\ [][AtomicNext]_vars

\* the same thread with the ordered 32-bit stores among its calls
PutOrderedU32(index, value) ==
    AtomicCall("put_ordered_u32", index, <<value>>,
               AtomicBuffer_put_ordered_u32(abuf, index, value))

PutOrderedU32WithOrder(index, value, byte_order) ==
    AtomicCall("put_ordered_u32_with_order", index, <<value, byte_order>>,
               AtomicBuffer_put_ordered_u32_with_order(abuf, index, value, byte_order))

FrameNext ==
    \/ AtomicNext
    \/ \E index \in AtomicIndices, value \in AtomicVals : PutOrderedU32(index, value)
    \/ \E index \in AtomicIndices, value \in AtomicVals :
          \E byte_order \in {"LittleEndian", "BigEndian"} :
             PutOrderedU32WithOrder(index, value, byte_order)

FrameSpec == AtomicInit /\ [][FrameNext]_vars

----------------------------------------------------------------------------
(* The concurrent counter: the slot at index 0 is set to 0, then each of   *)
(* NumThreads threads makes Increments calls of get_and_add_u64(0, 1), and *)
(* when all of them have been joined the slot is read.  fetch_add is one   *)
(* atomic read-modify-write, so a call is one step of its thread; the      *)
(* steps of the threads interleave in any order.  threads.calls[t] is the  *)
(* number of calls thread t has made and threads.returned the values the   *)
(* calls returned, in the order the calls took effect.                     *)

CounterThreads == 1..NumThreads

CounterInit ==
    /\ map = IntHashMap_new
    /\ set = IntHashSet_new
    /\ op = NoCall("new")
    /\ ret = None
    /\ set_ret = FALSE
    /\ live = <<>>
    /\ grow = GrowIdle
    /\ \E contents \in [{4 * (a \div 4) : a \in AtomicOffsets} -> AtomicInitVals] :
       \E o \in AtomicBuffer_put_volatile_u64(
                    AtomicBuffer_new(AtomicCapacity, contents), 0, U64(0)) :
          abuf = o.buf
    /\ aop = [name |-> "put_volatile_u64", index |-> 0, args |-> <<U64(0)>>,
              status |-> "ok", ret |-> <<>>, calls |-> 1]
    /\ threads = [calls |-> [t \in CounterThreads |-> 0], returned |-> <<>>]
    /\ mem = NoMemory
    /\ idle = NoIdle

\* thread t makes its next call of get_and_add_u64(0, 1)
Increment(t) ==
    /\ aop.name # "get_volatile_u64"
    /\ threads.calls[t] < Increments
    /\ \E o \in AtomicBuffer_get_and_add_u64(abuf, 0, U64(1)) :
          /\ abuf' = o.buf
          /\ threads' = [calls |-> [threads.calls EXCEPT ![t] = @ + 1],
                         returned |-> Append(threads.returned, o.ret)]
    /\ UNCHANGED <<collection_vars, aop, mem, idle>>

\* every thread has been joined: the final get_volatile_u64(0)
ReadCounter ==
    /\ aop.name # "get_volatile_u64"
    /\ \A t \in CounterThreads : threads.calls[t] = Increments
    /\ \E o \in AtomicBuffer_get_volatile_u64(abuf, 0) :
          /\ abuf' = o.buf
          /\ aop' = [name |-> "get_volatile_u64", index |-> 0, args |-> <<>>,
                     status |-> o.status, ret |-> o.ret, calls |-> aop.calls + 1]
    /\ UNCHANGED <<collection_vars, threads, mem, idle>>

CounterNext ==
    \/ \E t \in CounterThreads : Increment(t)
    \/ ReadCounter

CounterSpec == CounterInit /\ [][CounterNext]_vars

----------------------------------------------------------------------------
(* Single-producer/single-consumer publication.  The head slot is at index *)
(* HEAD_INDEX and message n has the payload slot DATA_START + 8 (n - 1);   *)
(* all slots hold 0 when the threads start.  The producer writes the       *)
(* payload of message n and then calls put_ordered_u64(head, n).  The      *)
(* consumer polls get_volatile_u64(head); when it reads a message number   *)
(* above the last it consumed, it reads the payload slot of that message.  *)

HEAD_INDEX == 0
DATA_START == 16

PayloadIndex(n) == DATA_START + 8 * (n - 1)
PublishSlots == {HEAD_INDEX} \cup {PayloadIndex(n) : n \in 1..MaxPublish}
\* the payload the producer writes for message n
PayloadOf(n) == U64(100 + n)
\* the message number a head value denotes
MessageOf(head) == CHOOSE n \in 0..MaxPublish : U64(n) = head

PublishInit ==
    /\ map = IntHashMap_new
    /\ set = IntHashSet_new
    /\ op = NoCall("new")
    /\ ret = None
    /\ set_ret = FALSE
    /\ live = <<>>
    /\ grow = GrowIdle
    /\ abuf = NoBuffer
    /\ aop = NoAtomicCall
    /\ mem = [index \in PublishSlots |-> <<[value |-> U64(0),
                                           view |-> [i \in PublishSlots |-> 1]]>>]
    /\ threads = [producer |-> [view |-> [i \in PublishSlots |-> 1],
                                pc |-> "payload", published |-> 0],
                  consumer |-> [view |-> [i \in PublishSlots |-> 1],
                                pc |-> "poll", head |-> 0, consumed |-> 0,
                                received |-> <<>>]]
    /\ idle = NoIdle

\* thread A writes the payload of its next message
WritePayload ==
    LET a == threads.producer
        n == a.published + 1
        r == Shared_put_volatile_u64(mem, a.view, PayloadIndex(n), PayloadOf(n))
    IN  /\ a.pc = "payload"
        /\ n <= MaxPublish
        /\ mem' = r.mem
        /\ threads' = [threads EXCEPT !.producer.view = r.view,
                                      !.producer.pc = "publish"]
        /\ UNCHANGED <<collection_vars, abuf, aop, idle>>

\* thread A calls put_ordered_u64(head, next_head)
PublishHead ==
    LET a == threads.producer
        n == a.published + 1
        r == Shared_put_ordered_u64(mem, a.view, HEAD_INDEX, U64(n))
    IN  /\ a.pc = "publish"
        /\ mem' = r.mem
        /\ threads' = [threads EXCEPT !.producer.view = r.view,
                                      !.producer.pc = "payload",
                                      !.producer.published = n]
        /\ UNCHANGED <<collection_vars, abuf, aop, idle>>

\* thread B calls get_volatile_u64(head)
PollHead ==
    LET b == threads.consumer
    IN  /\ b.pc = "poll"
        /\ b.consumed < MaxPublish
        /\ \E r \in Shared_get_volatile_u64(mem, b.view, HEAD_INDEX) :
              /\ mem' = r.mem
              /\ threads' = [threads EXCEPT
                    !.consumer.view = r.view,
                    !.consumer.head = MessageOf(r.ret),
                    !.consumer.pc = IF MessageOf(r.ret) > b.consumed
                                    THEN "read" ELSE "poll"]
        /\ UNCHANGED <<collection_vars, abuf, aop, idle>>

\* thread B, having read head = n, reads the payload of message n
ReadPayload ==
    LET b == threads.consumer
    IN  /\ b.pc = "read"
        /\ \E r \in Shared_get_volatile_u64(mem, b.view, PayloadIndex(b.head)) :
              /\ mem' = r.mem
              /\ threads' = [threads EXCEPT
                    !.consumer.view = r.view,
                    !.consumer.consumed = b.head,
                    !.consumer.received =
                        Append(@, [message |-> b.head, payload |-> r.ret]),
                    !.consumer.pc = "poll"]
        /\ UNCHANGED <<collection_vars, abuf, aop, idle>>

PublishNext == WritePayload \/ PublishHead \/ PollHead \/ ReadPayload

PublishSpec == PublishInit /\ [][PublishNext]_vars

----------------------------------------------------------------------------
(* The ring of producer_consumer_example: a Mutex<AtomicBuffer> with the   *)
(* head slot at HEAD_INDEX, the tail slot at TAIL_INDEX and max_messages   *)
(* payload slots from DATA_START.  The main thread stores 0 in head and    *)
(* tail and releases the two threads.  The producer sends the messages     *)
(* 0 .. RingMessages - 1; each thread loops: lock, read head and tail,     *)
(* then either do its work under the lock and let the guard go, or drop    *)
(* the guard and call BusySpinIdleStrategy::idle(0).  A panic under the    *)
(* lock poisons the mutex, and lock().unwrap() on a poisoned mutex panics. *)
(* threads.mutex is "unlocked", the thread holding it, or "poisoned";      *)
(* threads.producer.published counts the stores of head and                *)
(* threads.consumer.received lists the messages read, in order.            *)

TAIL_INDEX == 8

\* (BUFFER_SIZE - data_start) / 8
max_messages == (RingBufferSize - DATA_START) \div 8

\* the value of a u64 below 2^24
u64_value(v) == v[1] + 256 * v[2] + 65536 * v[3]

\* (current_head + 1) % max_messages as u64
next_head_of(current_head) == (current_head + 1) % max_messages

\* next_head != current_tail that finds room in a full ring too
ring_has_room_always(next_head, current_tail) == TRUE

\* next_head != current_tail
ring_has_room(next_head, current_tail) == next_head # current_tail

\* data_start + ((current % max_messages as u64) * 8) as usize
data_offset_of(current) == DATA_START + (current % max_messages) * 8

\* next_tail that leaves the tail where it is
next_tail_stuck(current_tail) == current_tail

\* (current_tail + 1) % max_messages as u64
next_tail_of(current_tail) == (current_tail + 1) % max_messages

\* message != last_message + 1 && message != 0
order_violation(message, last_message) ==
    message # last_message + 1 /\ message # 0

\* the contents a payload slot can have when the buffer is allocated
RingInitVals == {U64(0), U64(1)}

RingThreads == {"producer", "consumer"}

RingInit ==
    /\ map = IntHashMap_new
    /\ set = IntHashSet_new
    /\ op = NoCall("new")
    /\ ret = None
    /\ set_ret = FALSE
    /\ live = <<>>
    /\ grow = GrowIdle
    /\ \E contents \in [0..(max_messages - 1) -> RingInitVals] :
       LET allocated ==
               [capacity |-> RingBufferSize,
                bytes |-> [a \in 0..(RingBufferSize - 1) |->
                              IF a >= DATA_START /\ a < DATA_START + 8 * max_messages
                              THEN contents[(a - DATA_START) \div 8][(a % 8) + 1]
                              ELSE 1]]
       IN  \E h \in AtomicBuffer_put_volatile_u64(allocated, HEAD_INDEX, U64(0)) :
           \E t \in AtomicBuffer_put_volatile_u64(h.buf, TAIL_INDEX, U64(0)) :
              abuf = t.buf
    /\ aop = NoAtomicCall
    /\ threads = [mutex |-> "unlocked",
                  producer |-> [pc |-> "lock", message |-> 0, published |-> 0,
                                current_head |-> 0, current_tail |-> 0],
                  consumer |-> [pc |-> "lock", messages_received |-> 0,
                                last_message |-> 0, received |-> <<>>,
                                current_head |-> 0, current_tail |-> 0]]
    /\ mem = NoMemory
    /\ idle = NoIdle

\* thread t panics while it holds the guard
PanicsUnderLock(t) ==
    threads' = [threads EXCEPT ![t].pc = "panicked", !.mutex = "poisoned"]

\* buffer.lock().unwrap() of thread t returns the guard, or panics when the
\* mutex is poisoned
RingLock(t) ==
    /\ threads[t].pc = "lock"
    /\ threads.mutex \in {"unlocked", "poisoned"}
    /\ threads' = IF threads.mutex = "poisoned"
                  THEN [threads EXCEPT ![t].pc = "panicked"]
                  ELSE [threads EXCEPT ![t].pc = "poll", !.mutex = t]
    /\ UNCHANGED <<collection_vars, abuf, aop, mem, idle>>

ProducerLock == RingLock("producer")

ConsumerLock == RingLock("consumer")

\* the producer reads head and tail; with a full ring it drops the guard
ProducerPoll ==
    /\ threads.producer.pc = "poll"
    /\ \E h \in AtomicBuffer_get_volatile_u64(abuf, HEAD_INDEX),
          t \in AtomicBuffer_get_volatile_u64(abuf, TAIL_INDEX) :
          IF h.status # "ok" \/ t.status # "ok"
          THEN PanicsUnderLock("producer")
          ELSE LET current_head == u64_value(h.ret)
                   current_tail == u64_value(t.ret)
               IN  IF ring_has_room(next_head_of(current_head), current_tail)
                   THEN threads' = [threads EXCEPT
                            !.producer.pc = "write",
                            !.producer.current_head = current_head,
                            !.producer.current_tail = current_tail]
                   ELSE threads' = [threads EXCEPT
                            !.producer.pc = "idle",
                            !.producer.current_head = current_head,
                            !.producer.current_tail = current_tail,
                            !.mutex = "unlocked"]
    /\ UNCHANGED <<collection_vars, abuf, aop, mem, idle>>

\* buf.put_volatile_u64(data_offset, message).unwrap()
ProducerWrite ==
    LET a == threads.producer
    IN  /\ a.pc = "write"
        /\ \E o \in AtomicBuffer_put_volatile_u64(
                        abuf, data_offset_of(a.current_head), U64(a.message)) :
              /\ abuf' = o.buf
              /\ IF o.status # "ok"
                 THEN PanicsUnderLock("producer")
                 ELSE threads' = [threads EXCEPT !.producer.pc = "publish"]
        /\ UNCHANGED <<collection_vars, aop, mem, idle>>

\* buf.put_ordered_u64(head_index, next_head).unwrap(); break: the guard is
\* dropped and the for loop goes to the next message
ProducerPublish ==
    LET a == threads.producer
    IN  /\ a.pc = "publish"
        /\ \E o \in AtomicBuffer_put_ordered_u64(
                        abuf, HEAD_INDEX, U64(next_head_of(a.current_head))) :
              /\ abuf' = o.buf
              /\ IF o.status # "ok"
                 THEN PanicsUnderLock("producer")
                 ELSE threads' = [threads EXCEPT
                          !.producer.pc = IF a.message + 1 = RingMessages
                                          THEN "done" ELSE "lock",
                          !.producer.message = @ + 1,
                          !.producer.published = @ + 1,
                          !.mutex = "unlocked"]
        /\ UNCHANGED <<collection_vars, aop, mem, idle>>

\* strategy.idle(0) of the BusySpinIdleStrategy of thread t: a spin hint
RingIdle(t) ==
    /\ threads[t].pc = "idle"
    /\ threads' = [threads EXCEPT ![t].pc = "lock"]
    /\ UNCHANGED <<collection_vars, abuf, aop, mem, idle>>

ProducerIdle == RingIdle("producer")

ConsumerIdle == RingIdle("consumer")

\* the consumer reads head and tail; with an empty ring it drops the guard
ConsumerPoll ==
    /\ threads.consumer.pc = "poll"
    /\ \E h \in AtomicBuffer_get_volatile_u64(abuf, HEAD_INDEX),
          t \in AtomicBuffer_get_volatile_u64(abuf, TAIL_INDEX) :
          IF h.status # "ok" \/ t.status # "ok"
          THEN PanicsUnderLock("consumer")
          ELSE LET current_head == u64_value(h.ret)
                   current_tail == u64_value(t.ret)
               IN  IF current_tail # current_head
                   THEN threads' = [threads EXCEPT
                            !.consumer.pc = "read",
                            !.consumer.current_head = current_head,
                            !.consumer.current_tail = current_tail]
                   ELSE threads' = [threads EXCEPT
                            !.consumer.pc = "idle",
                            !.consumer.current_head = current_head,
                            !.consumer.current_tail = current_tail,
                            !.mutex = "unlocked"]
    /\ UNCHANGED <<collection_vars, abuf, aop, mem, idle>>

\* the consumer reads the slot of the tail and checks the message against
\* the last one
ConsumerRead ==
    LET b == threads.consumer
    IN  /\ b.pc = "read"
        /\ \E o \in AtomicBuffer_get_volatile_u64(abuf, data_offset_of(b.current_tail)) :
              IF o.status # "ok" \/ order_violation(u64_value(o.ret), b.last_message)
              THEN PanicsUnderLock("consumer")
              ELSE threads' = [threads EXCEPT
                       !.consumer.pc = "advance",
                       !.consumer.last_message = u64_value(o.ret),
                       !.consumer.messages_received = @ + 1,
                       !.consumer.received = Append(@, u64_value(o.ret))]
        /\ UNCHANGED <<collection_vars, abuf, aop, mem, idle>>

\* buf.put_ordered_u64(tail_index, next_tail).unwrap(); break: the guard is
\* dropped and the while loop tests messages_received
ConsumerAdvance ==
    LET b == threads.consumer
    IN  /\ b.pc = "advance"
        /\ \E o \in AtomicBuffer_put_ordered_u64(
                        abuf, TAIL_INDEX, U64(next_tail_of(b.current_tail))) :
              /\ abuf' = o.buf
              /\ IF o.status # "ok"
                 THEN PanicsUnderLock("consumer")
                 ELSE threads' = [threads EXCEPT
                          !.consumer.pc = IF b.messages_received = RingMessages
                                          THEN "done" ELSE "lock",
                          !.mutex = "unlocked"]
        /\ UNCHANGED <<collection_vars, aop, mem, idle>>

ProducerStep == ProducerPoll \/ ProducerWrite \/ ProducerPublish \/ ProducerIdle

ConsumerStep == ConsumerPoll \/ ConsumerRead \/ ConsumerAdvance \/ ConsumerIdle

RingNext ==
    \/ ProducerLock
    \/ ProducerPoll
    \/ ProducerWrite
    \/ ProducerPublish
    \/ ProducerIdle
    \/ ConsumerLock
    \/ ConsumerPoll
    \/ ConsumerRead
    \/ ConsumerAdvance
    \/ ConsumerIdle

RingSpec == RingInit /\ [][RingNext]_vars

\* both threads are scheduled whenever they can take a step, and the mutex
\* is fair: a thread that finds the mutex free again and again gets it
RingFairSpec ==
    /\ RingInit
    /\ [][RingNext]_vars
    /\ WF_vars(ProducerStep)
    /\ WF_vars(ConsumerStep)
    /\ SF_vars(ProducerLock)
    /\ SF_vars(ConsumerLock)

----------------------------------------------------------------------------
(* A BackoffIdleStrategy built with any parameters and called with work    *)
(* ticks (work_count = 1) and idle ticks (work_count = 0) in any order.    *)
(* idle.call is the last call: [name, work_count, phase, slept, before,    *)
(* run], before being the park_duration the strategy had when the call     *)
(* began and run the number of idle(0) calls made since the strategy was   *)
(* built or last reset, this call included.                                *)

WorkCounts == {0, 1}

\* the park durations a strategy is built with: 1..MaxPark nanoseconds past
\* 0, 2^63, ..., MaxParkHigh * 2^63
ParkDurations == {Nanos(high, low) : high \in 0..MaxParkHigh, low \in 1..MaxPark}

BackoffInit ==
    /\ map = IntHashMap_new
    /\ set = IntHashSet_new
    /\ op = NoCall("new")
    /\ ret = None
    /\ set_ret = FALSE
    /\ live = <<>>
    /\ grow = GrowIdle
    /\ abuf = NoBuffer
    /\ aop = NoAtomicCall
    /\ threads = NoThreads
    /\ mem = NoMemory
    /\ \E max_spins \in 0..MaxSpins, max_yields \in 0..MaxYields,
          min_park \in ParkDurations, max_park \in ParkDurations :
          idle = [strategy |-> BackoffIdleStrategy_new(max_spins, max_yields,
                                                       min_park, max_park),
                  call |-> [name |-> "new", work_count |-> 0,
                            phase |-> "none", slept |-> Nanos(0, 0),
                            before |-> Nanos(0, 0), run |-> 0]]

\* idle(work_count) on a thread that has not panicked
BackoffIdle(work_count) ==
    \E r \in BackoffIdleStrategy_idle(idle.strategy, work_count) :
        /\ idle.call.phase # "panic"
        /\ work_count = 0 => idle.call.run < MaxRun
        /\ idle' = [strategy |-> r.strategy,
                    call |-> [name |-> "idle", work_count |-> work_count,
                              phase |-> r.phase, slept |-> r.slept,
                              before |-> idle.strategy.park_duration,
                              run |-> IF work_count = 0
                                      THEN idle.call.run + 1 ELSE 0]]
        /\ UNCHANGED <<collection_vars, abuf, aop, threads, mem>>

BackoffReset ==
    /\ idle.call.phase # "panic"
    /\ idle' = [strategy |-> BackoffIdleStrategy_reset(idle.strategy),
                call |-> [name |-> "reset", work_count |-> 0,
                          phase |-> "reset", slept |-> Nanos(0, 0),
                          before |-> idle.strategy.park_duration,
                          run |-> 0]]
    /\ UNCHANGED <<collection_vars, abuf, aop, threads, mem>>

BackoffNext ==
    \/ \E work_count \in WorkCounts : BackoffIdle(work_count)
    \/ BackoffReset

BackoffSpec == BackoffInit /\ [][BackoffNext]_vars

----------------------------------------------------------------------------
(* A ControllableIdleStrategy shared by two threads: the idler calls idle  *)
(* and reset, the controller calls park and unpark.  An idle call that     *)
(* finds PARKING leaves the idler inside thread::park(), which returns     *)
(* when the token of the thread is made available, by Thread::unpark, or   *)
(* spuriously.  Nothing in idle_strategy.rs calls Thread::unpark, so the   *)
(* token never is available and only the spurious return is left; the      *)
(* platform does not promise one, so that step has no fairness.  The idler *)
(* takes its other steps whenever it can.                                  *)

ControlInit ==
    /\ map = IntHashMap_new
    /\ set = IntHashSet_new
    /\ op = NoCall("new")
    /\ ret = None
    /\ set_ret = FALSE
    /\ live = <<>>
    /\ grow = GrowIdle
    /\ abuf = NoBuffer
    /\ aop = NoAtomicCall
    /\ mem = NoMemory
    /\ threads = [idler |-> [pc |-> "running", calls |-> 0],
                  controller |-> [calls |-> 0, last |-> "none"]]
    /\ idle = [strategy |-> ControllableIdleStrategy_new,
               call |-> [name |-> "new", work_count |-> 0, phase |-> "none"]]

\* the idler calls idle(work_count): it returns, or blocks in thread::park()
ControlIdle(work_count) ==
    \E r \in ControllableIdleStrategy_idle(idle.strategy, work_count) :
        /\ threads.idler.pc = "running"
        /\ threads.idler.calls < MaxIdleCalls
        /\ idle' = [strategy |-> r.strategy,
                    call |-> [name |-> "idle", work_count |-> work_count,
                              phase |-> r.phase]]
        /\ threads' = [threads EXCEPT
              !.idler.pc = IF r.phase = "thread_park" THEN "parked" ELSE "running",
              !.idler.calls = @ + 1]
        /\ UNCHANGED <<collection_vars, abuf, aop, mem>>

\* thread::park() returns spuriously and idle returns
ParkReturns ==
    /\ threads.idler.pc = "parked"
    /\ threads' = [threads EXCEPT !.idler.pc = "running"]
    /\ UNCHANGED <<collection_vars, abuf, aop, mem, idle>>

\* the idler calls reset()
ControlReset ==
    /\ threads.idler.pc = "running"
    /\ idle' = [strategy |-> ControllableIdleStrategy_reset(idle.strategy),
                call |-> [name |-> "reset", work_count |-> 0, phase |-> "none"]]
    /\ UNCHANGED <<collection_vars, abuf, aop, mem, threads>>

\* the controller calls park()
ControlPark ==
    /\ threads.controller.calls < MaxControlCalls
    /\ idle' = [idle EXCEPT !.strategy = ControllableIdleStrategy_park(@)]
    /\ threads' = [threads EXCEPT !.controller.calls = @ + 1,
                                  !.controller.last = "park"]
    /\ UNCHANGED <<collection_vars, abuf, aop, mem>>

\* the controller calls unpark()
ControlUnpark ==
    /\ threads.controller.calls < MaxControlCalls
    /\ idle' = [idle EXCEPT !.strategy = ControllableIdleStrategy_unpark(@)]
    /\ threads' = [threads EXCEPT !.controller.calls = @ + 1,
                                  !.controller.last = "unpark"]
    /\ UNCHANGED <<collection_vars, abuf, aop, mem>>

ControlNext ==
    \/ \E work_count \in WorkCounts : ControlIdle(work_count)
    \/ ParkReturns
    \/ ControlReset
    \/ ControlPark
    \/ ControlUnpark

ControlSpec == ControlInit /\ [][ControlNext]_vars

\* both threads are scheduled whenever they can take a step of their own
ControlFairSpec ==
    /\ ControlInit
    /\ [][ControlNext]_vars
    /\ WF_vars(\E work_count \in WorkCounts : ControlIdle(work_count))
    /\ WF_vars(ControlPark \/ ControlUnpark)

----------------------------------------------------------------------------
(* An UnsafeBuffer of BufCapacity bytes under calls.  The allocation is    *)
(* not initialised, so the buffer starts with any contents.  One call is   *)
(* made on the new buffer, with any arguments; after a call that wrote,    *)
(* calls that read at the index written follow.  aop is the last call:     *)
(* [name, T, index, byte_order, value, status, err, ret, before, wrote], T *)
(* being the type of a typed accessor, value the integer, bytes or string  *)
(* passed, before the bytes of the buffer when the call began and wrote    *)
(* the last writing call made, if any.                                     *)

ByteOrders == {"LittleEndian", "BigEndian"}
\* what new() may find in the allocation: one of BufFills in every byte
BufFills == {0, 255}
\* an index inside, at and past the end, and near usize::MAX
BufIndices == (0..(BufCapacity + 1)) \cup {-1, -8, -9}
\* integers of n bytes: 0x0201, 0x04030201, ...; and 0
TypedVals(n) == {[i \in 1..n |-> i], [i \in 1..n |-> 0]}
\* "", "A", "Hi!", and the strings "é" and "Aé", which are not ASCII
BufStrings == {<<>>, <<65>>, <<72, 105, 33>>, <<195, 169>>, <<65, 195, 169>>}

UnsafeBuffer_new(capacity, contents) == [capacity |-> capacity, bytes |-> contents]

BufferInit ==
    /\ map = IntHashMap_new
    /\ set = IntHashSet_new
    /\ op = NoCall("new")
    /\ ret = None
    /\ set_ret = FALSE
    /\ live = <<>>
    /\ grow = GrowIdle
    /\ \E fill \in BufFills :
          abuf = UnsafeBuffer_new(BufCapacity, [a \in 0..(BufCapacity - 1) |-> fill])
    /\ aop = [name |-> "new", T |-> "", index |-> 0, byte_order |-> "",
              value |-> <<>>, status |-> "ok", err |-> NoError, ret |-> <<>>,
              before |-> <<>>, wrote |-> <<>>]
    /\ threads = NoThreads
    /\ mem = NoMemory
    /\ idle = NoIdle

\* a call that reads or writes (writing = 1 or 0) with the given outcomes
BufferCall(name, T, index, byte_order, value, writing, outcomes) ==
    /\ \/ aop.name = "new"
       \/ writing = 0 /\ aop.status = "ok" /\ aop.wrote # <<>> /\ index = aop.index
    /\ \E o \in outcomes :
          /\ abuf' = o.buf
          /\ aop' = [name |-> name, T |-> T, index |-> index,
                     byte_order |-> byte_order, value |-> value,
                     status |-> o.status, err |-> o.err, ret |-> o.ret,
                     before |-> abuf.bytes,
                     wrote |-> IF writing = 1
                               THEN <<[name |-> name, T |-> T,
                                       byte_order |-> byte_order, value |-> value]>>
                               ELSE aop.wrote]
    /\ UNCHANGED <<collection_vars, threads, mem, idle>>

GetU8(index) ==
    BufferCall("get_u8", "u8", index, "", <<>>, 0, UnsafeBuffer_get_u8(abuf, index))

PutU8(index, value) ==
    BufferCall("put_u8", "u8", index, "", value, 1,
               UnsafeBuffer_put_u8(abuf, index, value))

GetWithOrder(T, index, byte_order) ==
    BufferCall("get_T_with_order", T, index, byte_order, <<>>, 0,
               get_T_with_order(T, abuf, index, byte_order))

PutWithOrder(T, index, value, byte_order) ==
    BufferCall("put_T_with_order", T, index, byte_order, value, 1,
               put_T_with_order(T, abuf, index, value, byte_order))

Get(T, index) ==
    BufferCall("get_T", T, index, "", <<>>, 0, get_T(T, abuf, index))

Put(T, index, value) ==
    BufferCall("put_T", T, index, "", value, 1, put_T(T, abuf, index, value))

PutBytes(index, src) ==
    BufferCall("put_bytes", "", index, "", src, 1,
               UnsafeBuffer_put_bytes(abuf, index, src))

PutStringAscii(index, value) ==
    BufferCall("put_string_ascii", "", index, "", value, 1,
               MutableBuffer_put_string_ascii(abuf, index, value))

PutStringUtf8(index, value) ==
    BufferCall("put_string_utf8", "", index, "", value, 1,
               MutableBuffer_put_string_utf8(abuf, index, value))

GetStringAscii(index) ==
    BufferCall("get_string_ascii", "", index, "", <<>>, 0,
               DirectBuffer_get_string_ascii(abuf, index))

BufferNext ==
    \/ \E index \in BufIndices : GetU8(index)
    \/ \E index \in BufIndices, value \in TypedVals(1) : PutU8(index, value)
    \/ \E T \in IntTypes, index \in BufIndices, byte_order \in ByteOrders :
          GetWithOrder(T, index, byte_order)
    \/ \E T \in IntTypes, index \in BufIndices, byte_order \in ByteOrders :
          \E value \in TypedVals(WidthOf(T)) : PutWithOrder(T, index, value, byte_order)
    \/ \E T \in IntTypes, index \in BufIndices : Get(T, index)
    \/ \E T \in IntTypes, index \in BufIndices :
          \E value \in TypedVals(WidthOf(T)) : Put(T, index, value)
    \/ \E index \in BufIndices, src \in BufStrings : PutBytes(index, src)
    \/ \E index \in BufIndices, value \in BufStrings : PutStringAscii(index, value)
    \/ \E index \in BufIndices, value \in BufStrings : PutStringUtf8(index, value)
    \/ \E index \in BufIndices : GetStringAscii(index)

BufferSpec == BufferInit /\ [][BufferNext]_vars

----------------------------------------------------------------------------
(* An UnsafeBuffer of AsciiCapacity bytes under the ASCII number codecs.   *)
(* One call is made on the new buffer: put_bytes of a text, one of the     *)
(* number writers, or a parser; after a call that wrote, parsers are       *)
(* called at the index written, with any length.  aop is the last call:    *)
(* [name, index, length, value, status, err, ret, before, wrote], value    *)
(* being <<v>> for an i32, the i64 or the bytes passed, before the bytes   *)
(* of the buffer when the call began and wrote the last writing call.      *)

DigitsOf(ds) == [i \in 1..Len(ds) |-> 48 + ds[i]]
Minus(text) == <<45>> \o text

I32Vals == {0, 7, 42, -123, 1234567890, -987654321, -1, I32_MAX, I32_MIN}
\* 0, 42, -42, 10^9, -10^18, i64::MAX, i64::MIN
I64Vals == {<<0, 0, 0, 0>>, <<0, 0, 0, 42>>, <<1, 0, 0, 42>>, <<0, 0, 1, 0>>,
            <<1, 1, 0, 0>>, <<0>> \o I64_MAX_U64, I64_MIN}
\* "", "0", "12345", "-67890", "007", "-0", "12a", "-", "+5", "2147483647",
\* "2147483648", "-2147483648", "9223372036854775807", "9223372036854775808"
AsciiTexts ==
    {<<>>, DigitsOf(<<0>>), DigitsOf(<<1, 2, 3, 4, 5>>),
     Minus(DigitsOf(<<6, 7, 8, 9, 0>>)), DigitsOf(<<0, 0, 7>>),
     Minus(DigitsOf(<<0>>)), <<49, 50, 97>>, <<45>>, <<43, 53>>,
     DigitsOf(<<2, 1, 4, 7, 4, 8, 3, 6, 4, 7>>),
     DigitsOf(<<2, 1, 4, 7, 4, 8, 3, 6, 4, 8>>),
     Minus(DigitsOf(<<2, 1, 4, 7, 4, 8, 3, 6, 4, 8>>)),
     DigitsOf(<<9, 2, 2, 3, 3, 7, 2, 0, 3, 6, 8, 5, 4, 7, 7, 5, 8, 0, 7>>),
     DigitsOf(<<9, 2, 2, 3, 3, 7, 2, 0, 3, 6, 8, 5, 4, 7, 7, 5, 8, 0, 8>>)}
AsciiIndices == {0, 2, AsciiCapacity - 11, AsciiCapacity - 1, AsciiCapacity, -1}
PaddedLengths == {0, 1, 3, 10}
ParseLengths == {Len(t) : t \in AsciiTexts} \cup {11, 20, AsciiCapacity + 1, -1}

AsciiInit ==
    /\ map = IntHashMap_new
    /\ set = IntHashSet_new
    /\ op = NoCall("new")
    /\ ret = None
    /\ set_ret = FALSE
    /\ live = <<>>
    /\ grow = GrowIdle
    /\ \E fill \in BufFills :
          abuf = UnsafeBuffer_new(AsciiCapacity,
                                  [a \in 0..(AsciiCapacity - 1) |-> fill])
    /\ aop = [name |-> "new", index |-> 0, length |-> 0, value |-> <<>>,
              status |-> "ok", err |-> NoError, ret |-> <<>>,
              before |-> <<>>, wrote |-> <<>>]
    /\ threads = NoThreads
    /\ mem = NoMemory
    /\ idle = NoIdle

AsciiCall(name, index, length, value, writing, outcomes) ==
    /\ \/ aop.name = "new"
       \/ writing = 0 /\ aop.status = "ok" /\ aop.wrote # <<>> /\ index = aop.index
    /\ \E o \in outcomes :
          /\ abuf' = o.buf
          /\ aop' = [name |-> name, index |-> index, length |-> length,
                     value |-> value, status |-> o.status, err |-> o.err,
                     ret |-> o.ret, before |-> abuf.bytes,
                     wrote |-> IF writing = 1
                               THEN <<[name |-> name, length |-> length,
                                       value |-> value, ret |-> o.ret]>>
                               ELSE aop.wrote]
    /\ UNCHANGED <<collection_vars, threads, mem, idle>>

PutText(index, src) ==
    AsciiCall("put_bytes", index, Len(src), src, 1,
              UnsafeBuffer_put_bytes(abuf, index, src))

PutI32Ascii(index, value) ==
    AsciiCall("put_i32_ascii", index, 0, <<value>>, 1,
              UnsafeBuffer_put_i32_ascii(abuf, index, value))

PutNaturalI32Ascii(index, value) ==
    AsciiCall("put_natural_i32_ascii", index, 0, <<value>>, 1,
              UnsafeBuffer_put_natural_i32_ascii(abuf, index, value))

PutNaturalPaddedI32Ascii(index, length, value) ==
    AsciiCall("put_natural_padded_i32_ascii", index, length, <<value>>, 1,
              UnsafeBuffer_put_natural_padded_i32_ascii(abuf, index, length, value))

PutNaturalI32AsciiFromEnd(value, end_exclusive) ==
    AsciiCall("put_natural_i32_ascii_from_end", end_exclusive, 0, <<value>>, 1,
              UnsafeBuffer_put_natural_i32_ascii_from_end(abuf, value, end_exclusive))

PutI64Ascii(index, value) ==
    AsciiCall("put_i64_ascii", index, 0, value, 1,
              UnsafeBuffer_put_i64_ascii(abuf, index, value))

PutNaturalI64Ascii(index, value) ==
    AsciiCall("put_natural_i64_ascii", index, 0, value, 1,
              UnsafeBuffer_put_natural_i64_ascii(abuf, index, value))

ParseNaturalI32Ascii(index, length) ==
    AsciiCall("parse_natural_i32_ascii", index, length, <<>>, 0,
              UnsafeBuffer_parse_natural_i32_ascii(abuf, index, length))

ParseNaturalI64Ascii(index, length) ==
    AsciiCall("parse_natural_i64_ascii", index, length, <<>>, 0,
              UnsafeBuffer_parse_natural_i64_ascii(abuf, index, length))

ParseI32Ascii(index, length) ==
    AsciiCall("parse_i32_ascii", index, length, <<>>, 0,
              UnsafeBuffer_parse_i32_ascii(abuf, index, length))

ParseI64Ascii(index, length) ==
    AsciiCall("parse_i64_ascii", index, length, <<>>, 0,
              UnsafeBuffer_parse_i64_ascii(abuf, index, length))

AsciiNext ==
    \/ \E index \in AsciiIndices, src \in AsciiTexts : PutText(index, src)
    \/ \E index \in AsciiIndices, value \in I32Vals : PutI32Ascii(index, value)
    \/ \E index \in AsciiIndices, value \in I32Vals : PutNaturalI32Ascii(index, value)
    \/ \E index \in AsciiIndices, length \in PaddedLengths, value \in I32Vals :
          PutNaturalPaddedI32Ascii(index, length, value)
    \/ \E value \in I32Vals, end_exclusive \in AsciiIndices \cup PaddedLengths :
          PutNaturalI32AsciiFromEnd(value, end_exclusive)
    \/ \E index \in AsciiIndices, value \in I64Vals : PutI64Ascii(index, value)
    \/ \E index \in AsciiIndices, value \in I64Vals : PutNaturalI64Ascii(index, value)
    \/ \E index \in AsciiIndices, length \in ParseLengths :
          ParseNaturalI32Ascii(index, length)
    \/ \E index \in AsciiIndices, length \in ParseLengths :
          ParseNaturalI64Ascii(index, length)
    \/ \E index \in AsciiIndices, length \in ParseLengths : ParseI32Ascii(index, length)
    \/ \E index \in AsciiIndices, length \in ParseLengths : ParseI64Ascii(index, length)

AsciiSpec == AsciiInit /\ [][AsciiNext]_vars

----------------------------------------------------------------------------
(* One thread calling the accessors of an AtomicBuffer that take a byte    *)
(* order, the ordered stores and add_ordered_u64.  The buffer and the      *)
(* memory after it start filled with one of OrderedFills.  aop.stored maps *)
(* each index to the last value put there, <<[T, byte_order, value,        *)
(* adds]>>, adds counting the add_ordered_u64 calls made on it since, or to *)
(* <<>> when a later call wrote to bytes of that slot by its own           *)
(* arguments (index and width of its type).                                *)

AtomicTypes == {"u32", "u64"}
OrderedFills == {0, 255}
OrderedVals(T) ==
    IF T = "u32" THEN {U32(42), <<1, 2, 3, 4>>}
    ELSE {U64(42), <<1, 2, 3, 4, 5, 6, 7, 8>>}
OrderedIncrements == {U64(50), [i \in 1..8 |-> 255]}

get_volatile_T_with_order(T, b, index, byte_order) ==
    IF T = "u32" THEN AtomicBuffer_get_volatile_u32_with_order(b, index, byte_order)
    ELSE AtomicBuffer_get_volatile_u64_with_order(b, index, byte_order)
put_volatile_T_with_order(T, b, index, value, byte_order) ==
    IF T = "u32"
    THEN AtomicBuffer_put_volatile_u32_with_order(b, index, value, byte_order)
    ELSE AtomicBuffer_put_volatile_u64_with_order(b, index, value, byte_order)
put_ordered_T_with_order(T, b, index, value, byte_order) ==
    IF T = "u32"
    THEN AtomicBuffer_put_ordered_u32_with_order(b, index, value, byte_order)
    ELSE AtomicBuffer_put_ordered_u64_with_order(b, index, value, byte_order)

NothingStored == [index \in AtomicIndices |-> <<>>]

OrderedInit ==
    /\ map = IntHashMap_new
    /\ set = IntHashSet_new
    /\ op = NoCall("new")
    /\ ret = None
    /\ set_ret = FALSE
    /\ live = <<>>
    /\ grow = GrowIdle
    /\ \E fill \in OrderedFills :
          abuf = [capacity |-> AtomicCapacity, bytes |-> [a \in AtomicOffsets |-> fill]]
    /\ aop = [name |-> "new", T |-> "u32", index |-> 0, byte_order |-> "LittleEndian",
              value |-> <<>>, status |-> "ok", ret |-> <<>>, calls |-> 0,
              stored |-> NothingStored]
    /\ threads = NoThreads
    /\ mem = NoMemory
    /\ idle = NoIdle

\* the slots a call on the n bytes at index wrote to by its arguments
WrittenTo(stored, index, n) ==
    {j \in DOMAIN stored :
        /\ stored[j] # <<>>
        /\ j < index + n
        /\ index < j + WidthOf(stored[j][1].T)}

\* a call with these outcomes is made and one of them happens; a panic ends
\* the thread; entry is what a successful call leaves stored at index
OrderedCall(name, T, index, byte_order, value, writing, entry, outcomes) ==
    /\ aop.calls < MaxOrderedCalls
    /\ aop.status # "panic"
    /\ \E o \in outcomes :
          /\ abuf' = o.buf
          /\ aop' = [name |-> name, T |-> T, index |-> index,
                     byte_order |-> byte_order, value |-> value,
                     status |-> o.status, ret |-> o.ret, calls |-> aop.calls + 1,
                     stored |->
                        IF writing = 0 \/ o.status # "ok" THEN aop.stored
                        ELSE [j \in DOMAIN aop.stored |->
                                 IF j = index THEN entry
                                 ELSE IF j \in WrittenTo(aop.stored, index, WidthOf(T))
                                 THEN <<>>
                                 ELSE aop.stored[j]]]
    /\ UNCHANGED <<collection_vars, threads, mem, idle>>

Stored(T, byte_order, value, adds) ==
    <<[T |-> T, byte_order |-> byte_order, value |-> value, adds |-> adds]>>

GetVolatileWithOrder(T, index, byte_order) ==
    OrderedCall("get_volatile_with_order", T, index, byte_order, <<>>, 0, <<>>,
                get_volatile_T_with_order(T, abuf, index, byte_order))

PutVolatileWithOrder(T, index, value, byte_order) ==
    OrderedCall("put_volatile_with_order", T, index, byte_order, value, 1,
                Stored(T, byte_order, value, 0),
                put_volatile_T_with_order(T, abuf, index, value, byte_order))

PutOrderedWithOrder(T, index, value, byte_order) ==
    OrderedCall("put_ordered_with_order", T, index, byte_order, value, 1,
                Stored(T, byte_order, value, 0),
                put_ordered_T_with_order(T, abuf, index, value, byte_order))

\* the slot holds x: the sum of what was last put there in the native order
\* and the increments since, or else what the memory holds
AddOrderedU64(index, increment) ==
    LET known == /\ aop.stored[index] # <<>>
                 /\ aop.stored[index][1].T = "u64"
                 /\ aop.stored[index][1].byte_order = "LittleEndian"
        x    == IF known THEN aop.stored[index][1].value
                ELSE IF AtomicBuffer_bounds_check(abuf, index, 8)
                THEN ReadLE(abuf.bytes, index, 8)
                ELSE U64(0)
        adds == IF known /\ aop.stored[index][1].adds > 0 THEN 2 ELSE 1
    IN  OrderedCall("add_ordered_u64", "u64", index, "LittleEndian", increment, 1,
                    Stored("u64", "LittleEndian", wrapping_add(x, increment), adds),
                    AtomicBuffer_add_ordered_u64(abuf, index, increment))

OrderedNext ==
    \/ \E T \in AtomicTypes, index \in AtomicIndices, byte_order \in ByteOrders :
          GetVolatileWithOrder(T, index, byte_order)
    \/ \E T \in AtomicTypes, index \in AtomicIndices, byte_order \in ByteOrders :
          \E value \in OrderedVals(T) : PutVolatileWithOrder(T, index, value, byte_order)
    \/ \E T \in AtomicTypes, index \in AtomicIndices, byte_order \in ByteOrders :
          \E value \in OrderedVals(T) : PutOrderedWithOrder(T, index, value, byte_order)
    \/ \E index \in AtomicIndices, increment \in OrderedIncrements :
          AddOrderedU64(index, increment)

OrderedSpec == OrderedInit /\ [][OrderedNext]_vars

----------------------------------------------------------------------------
(* One caller writing a string with its length header into a new buffer    *)
(* and reading it back.  The buffers are 64 bytes, 2^32 + LongTail and     *)
(* 2^33 + LongTail bytes long and start filled with one byte; the strings  *)
(* are short ones and runs of one letter around 2^16 and 2^32 bytes.       *)

TwoTo32 == <<1, 0, 0>>
LongCapacities ==
    {Size(64), size_add(TwoTo32, Size(LongTail)),
     size_add(size_add(TwoTo32, TwoTo32), Size(LongTail))}
LongFills == {0, 65, 255}
LongIndices == {Size(0), Size(1), Size(60), TwoTo32}
LongStrings ==
    {<<>>,
     RunsOf(<<65>>),
     RunsOf(<<72, 101, 108, 108, 111, 44, 32, 87, 111, 114, 108, 100, 33>>),
     RunsOf(<<72, 233>>),
     <<Run(Size(Limb), 65)>>,
     <<Run(size_sub(TwoTo32, Size(1)), 65)>>,
     <<Run(TwoTo32, 65)>>,
     <<Run(size_add(TwoTo32, Size(1)), 65)>>,
     <<Run(TwoTo32, 122), Run(Size(1), 65)>>}

LongInit ==
    /\ map = IntHashMap_new
    /\ set = IntHashSet_new
    /\ op = NoCall("new")
    /\ ret = None
    /\ set_ret = FALSE
    /\ live = <<>>
    /\ grow = GrowIdle
    /\ \E capacity \in LongCapacities, fill \in LongFills :
          abuf = [capacity |-> capacity, runs |-> <<Run(capacity, fill)>>]
    /\ aop = [name |-> "new", index |-> Size(0), value |-> <<>>, status |-> "ok",
              err |-> NoError, ret |-> <<>>, before |-> <<>>]
    /\ threads = NoThreads
    /\ mem = NoMemory
    /\ idle = NoIdle

LongCall(name, index, value, outcomes) ==
    /\ \E o \in outcomes :
          /\ abuf' = o.buf
          /\ aop' = [name |-> name, index |-> index, value |-> value,
                     status |-> o.status, err |-> o.err, ret |-> o.ret,
                     before |-> abuf.runs]
    /\ UNCHANGED <<collection_vars, threads, mem, idle>>

\* put_string_ascii(index, value) on the new buffer
LongPutStringAscii(index, value) ==
    /\ aop.name = "new"
    /\ LongCall("put_string_ascii", index, value,
                put_string_ascii_runs(abuf, index, value))

\* get_string_ascii(index) of the string just put at index
LongGetStringAscii ==
    /\ aop.name = "put_string_ascii"
    /\ aop.status = "ok"
    /\ LongCall("get_string_ascii", aop.index, aop.value,
                get_string_ascii_runs(abuf, aop.index))

LongNext ==
    \/ \E index \in LongIndices, value \in LongStrings :
          LongPutStringAscii(index, value)
    \/ LongGetStringAscii

LongSpec == LongInit /\ [][LongNext]_vars

----------------------------------------------------------------------------
(* Properties.                                                             *)

\* the slots of a keys array that hold a key
Occupied(ks) == {i \in DOMAIN ks : ks[i] # MISSING_VALUE}

\* n is a power of two
RECURSIVE IsPow2(_)
IsPow2(n) == n = 1 \/ (n > 1 /\ n % 2 = 0 /\ IsPow2(n \div 2))

\* the slot at distance j after slot from, in a table of that capacity
SlotAfter(from, j, capacity) == (from + j) % capacity

\* every occupied slot s is reached from the ideal slot of its key by walking
\* forward without passing a sentinel
ChainsUnbroken(ks) ==
    LET capacity == VecLen(ks)
    IN  \A s \in Occupied(ks) :
            LET ideal == IdealIndex(ks[s], capacity - 1)
                dist  == (s - ideal + capacity) % capacity
            IN  \A j \in 0..(dist - 1) :
                    ks[SlotAfter(ideal, j, capacity)] # MISSING_VALUE

\* C1: after insert(k, v), get(k) is Some(v); a remove(k) that follows
\* returns Some(v), and after it get(k) is None.
C1_InsertGetRemove ==
    [][ /\ (op'.name = "insert"
              => IntHashMap_get(map', op'.key) = Some(op'.value))
        /\ (op.name = "insert" /\ op'.name = "remove" /\ op'.key = op.key
              => /\ ret' = Some(op.value)
                 /\ IntHashMap_get(map', op.key) = None) ]_vars

\* a remove has returned the value of a key and the key is gone
C1_Witness ==
    /\ op.name = "remove"
    /\ ret \in {Some(v) : v \in Vals}
    /\ IntHashMap_get(map, op.key) = None
    /\ map.size = 0

\* C2: len() is the number of keys whose last call was an insert with no
\* later remove (or clear).
C2_LenCountsLiveKeys ==
    IntHashMap_len(map) = Cardinality(DOMAIN live)

\* after a resize, inserts and a successful remove, some keys live and some not
C2_Witness ==
    /\ op.name = "remove"
    /\ ret # None
    /\ IntHashMap_capacity(map) = 2 * MIN_CAPACITY
    /\ IntHashMap_len(map) = NumWideKeys - 1
    /\ Cardinality(DOMAIN live) = NumWideKeys - 1

\* C3: remove(k) leaves get(k') as it was for every other key k'.
C3_RemoveFrame ==
    [][ op'.name = "remove"
          => \A k \in Keys \ {op'.key} :
                 IntHashMap_get(map', k) = IntHashMap_get(map, k) ]_vars

\* a key was removed from the last slot and compaction moved an entry of its
\* chain from beyond the wrap into that slot
C3_Witness ==
    /\ op.name = "remove"
    /\ ret # None
    /\ op.index = map.mask
    /\ map.keys[map.mask] # MISSING_VALUE
    /\ map.keys[0] # MISSING_VALUE

\* C4: in the map and in the set every occupied slot is reached from the
\* ideal slot of its key without passing a sentinel.
C4_ChainsUnbroken ==
    /\ ChainsUnbroken(map.keys)
    /\ ChainsUnbroken(set.keys)

\* after a resize, a remove whose compaction refilled the deleted slot has
\* left an entry away from its ideal slot
C4_Witness ==
    /\ op.name = "remove"
    /\ set_ret
    /\ IntHashSet_capacity(set) = 2 * MIN_CAPACITY
    /\ set.keys[op.index] # MISSING_VALUE
    /\ \E s \in Occupied(set.keys) : s # IdealIndex(set.keys[s], set.mask)

\* C5 as stated: size < resize_threshold = floor(capacity * 0.67).
C5_SizeBelowThreshold ==
    /\ map.size < map.resize_threshold
    /\ set.size < set.resize_threshold
    /\ map.resize_threshold = (IntHashMap_capacity(map) * 67) \div 100
    /\ set.resize_threshold = (IntHashSet_capacity(set) * 67) \div 100

\* C5 amended: size <= resize_threshold, where resize_threshold is
\* floor(capacity * 0.67) at the capacities of the model.
C5_SizeAtMostThreshold ==
    /\ map.size <= map.resize_threshold
    /\ set.size <= set.resize_threshold
    /\ map.resize_threshold = (IntHashMap_capacity(map) * 67) \div 100
    /\ set.resize_threshold = (IntHashSet_capacity(set) * 67) \div 100

\* an insert has filled the containers up to the threshold
C5_Witness ==
    /\ op.name = "insert"
    /\ map.size = map.resize_threshold
    /\ set.size = set.resize_threshold

\* C6: size is the number of slots whose key is not the sentinel.
C6_SizeCountsSlots ==
    /\ map.size = Cardinality(Occupied(map.keys))
    /\ set.size = Cardinality(Occupied(set.keys))

\* a successful remove has left three keys
C6_Witness ==
    /\ op.name = "remove"
    /\ set_ret
    /\ set.size = 3
    /\ Cardinality(Occupied(map.keys)) = 3

C8_CapacityPow2 ==
    /\ [](/\ IsPow2(IntHashMap_capacity(map))
          /\ IntHashMap_capacity(map) >= 8
          /\ IsPow2(IntHashSet_capacity(set))
          /\ IntHashSet_capacity(set) >= 8)
    /\ [][ /\ IntHashMap_capacity(map')
               \in {IntHashMap_capacity(map), 2 * IntHashMap_capacity(map)}
           /\ IntHashSet_capacity(set')
               \in {IntHashSet_capacity(set), 2 * IntHashSet_capacity(set)} ]_vars

\* an insert has doubled the capacity of both containers
C8_Witness ==
    /\ op.resized
    /\ IntHashMap_capacity(map) = 16
    /\ IntHashSet_capacity(set) = 16

\* ceil(n / 0.67)
CeilDivLoadFactor(n) == 100 * (n \div 67) + ((100 * (n % 67) + 66) \div 67)

\* the smallest p * 2^j that is >= n
RECURSIVE DoubleUpTo(_, _)
DoubleUpTo(p, n) == IF p >= n THEN p ELSE DoubleUpTo(2 * p, n)

\* the capacity C9 states for n distinct keys
ClaimedCapacity(n) == DoubleUpTo(8, CeilDivLoadFactor(n))

\* floor(c * 0.67f32) for a power of two c, 0.67f32 being 11240735 / 2^24
F32Floor(c) ==
    IF c <= 16777216 THEN 11240735 \div (16777216 \div c)
    ELSE 11240735 * (c \div 16777216)

\* the smallest c * 2^j with n <= floor(c * 2^j * 0.67f32)
RECURSIVE F32Capacity(_, _)
F32Capacity(c, n) == IF n <= F32Floor(c) THEN c ELSE F32Capacity(2 * c, n)

\* C9 as stated: n distinct keys inserted into new() leave the capacity at
\* the smallest power of two >= 8 and >= ceil(n / 0.67).
C9_ClaimedCapacity ==
    /\ grow.capacity = ClaimedCapacity(grow.size)
    /\ grow.tracked => IntHashMap_capacity(map) = ClaimedCapacity(map.size)

\* C9 amended: they leave it at the smallest power of two c >= 8 with
\* n <= floor(c * 0.67f32), which is the stated capacity for n <= 11240734,
\* and 2048 for n = 1000.
C9_FillCapacity ==
    /\ grow.capacity = F32Capacity(8, grow.size)
    /\ grow.size <= 11240734 => grow.capacity = ClaimedCapacity(grow.size)
    /\ grow.size = 1000 => grow.capacity = 2048
    /\ grow.tracked => /\ map.size = grow.size
                       /\ IntHashMap_capacity(map) = grow.capacity
                       /\ map.resize_threshold = grow.resize_threshold

\* the fill has inserted 1000 keys
C9_Witness ==
    /\ grow.size = 1000
    /\ grow.capacity = 2048
    /\ grow.steps = FillN - 1000

C11_RemoveAbsent ==
    [][ op'.name = "remove" /\ op'.key \notin DOMAIN live
          => /\ ret' = None
             /\ set_ret' = FALSE
             /\ map' = map
             /\ set' = set ]_vars

\* an absent key was removed from a table after a resize, and its probe
\* walked over occupied slots before it met a sentinel
C11_Witness ==
    /\ op.name = "remove"
    /\ ret = None
    /\ set_ret = FALSE
    /\ op.key \notin DOMAIN live
    /\ op.index # IdealIndex(op.key, map.mask)
    /\ map.size > 0
    /\ IntHashMap_capacity(map) = 2 * MIN_CAPACITY

\* C12: the set is the set of keys the calls denote: insert returns true iff
\* the key was absent, remove returns true iff it was present, contains(k)
\* iff k is in the abstract set, and len() is its cardinality.
C12_SetRefinement ==
    /\ [](/\ \A k \in WideKeys :
               IntHashSet_contains(set, k) <=> k \in DOMAIN live
          /\ IntHashSet_len(set) = Cardinality(DOMAIN live))
    /\ [][ /\ (op'.name = "insert"
                  => set_ret' = (op'.key \notin DOMAIN live))
            /\ (op'.name = "remove"
                  => set_ret' = (op'.key \in DOMAIN live)) ]_vars

\* after a resize, an insert of a key already in the set returned false while
\* another key of the pool is absent
C12_Witness ==
    /\ op.name = "insert"
    /\ set_ret = FALSE
    /\ IntHashSet_capacity(set) = 2 * MIN_CAPACITY
    /\ IntHashSet_len(set) = NumWideKeys - 1
    /\ \E k \in WideKeys : ~IntHashSet_contains(set, k)

\* C13: clear() sets len() to 0, makes get(k) None for every key, resets
\* every value slot to the default and leaves capacity, mask and
\* resize_threshold as they were.
C13_Clear ==
    [][ op'.name = "clear"
          => /\ IntHashMap_len(map') = 0
             /\ \A k \in WideKeys : IntHashMap_get(map', k) = None
             /\ \A i \in DOMAIN map'.values : map'.values[i] = DefaultValue
             /\ IntHashMap_capacity(map') = IntHashMap_capacity(map)
             /\ map'.mask = map.mask
             /\ map'.resize_threshold = map.resize_threshold ]_vars

\* a map that had resized and held as many entries as fit below the
\* threshold of MIN_CAPACITY, or more, was cleared
C13_Witness ==
    /\ op.name = "clear"
    /\ op.len >= ResizeThreshold(MIN_CAPACITY)
    /\ IntHashMap_capacity(map) = 2 * MIN_CAPACITY
    /\ IntHashMap_len(map) = 0
    /\ \A i \in DOMAIN map.values : map.values[i] = DefaultValue

\* the slots of a keys array that hold a key, in increasing order
NthOccupied(ks, n) ==
    CHOOSE s \in Occupied(ks) :
        Cardinality({t \in Occupied(ks) : t < s}) = n - 1

SlotsInOrder(ks) == [n \in 1..Cardinality(Occupied(ks)) |-> NthOccupied(ks, n)]

C15_Publication ==
    \A i \in DOMAIN threads.consumer.received :
        threads.consumer.received[i].payload
            = PayloadOf(threads.consumer.received[i].message)

\* the 32-bit slot at index
Slot32(b, index) == ReadLE(b.bytes, index, 4)

\* C16: compare_and_set_u32(index, expected, update) at a 4-byte-aligned
\* in-bounds index returns true iff the slot at index equalled expected; when
\* it returns true the slot holds update, when false the slot is unchanged.
C16_CompareAndSet ==
    [][ aop'.name = "compare_and_set_u32" /\ aop'.status = "ok"
          => /\ aop'.ret[1] = (Slot32(abuf, aop'.index) = aop'.args[1])
             /\ (aop'.ret[1] => Slot32(abuf', aop'.index) = aop'.args[2])
             /\ (~aop'.ret[1]
                   => Slot32(abuf', aop'.index) = Slot32(abuf, aop'.index))
      ]_vars

\* C17: get_and_add_u32(index, delta) at a 4-byte-aligned in-bounds index
\* returns the value the slot at index held before the call, and afterwards
\* the slot holds that value plus delta modulo 2^32.
C17_GetAndAdd ==
    [][ aop'.name = "get_and_add_u32" /\ aop'.status = "ok"
          => /\ aop'.ret = Slot32(abuf, aop'.index)
             /\ Slot32(abuf', aop'.index)
                  = wrapping_add(Slot32(abuf, aop'.index), aop'.args[1]) ]_vars

\* C18: when every thread has made its calls of get_and_add_u64(0, 1) on a
\* slot that began at 0, the final get_volatile_u64(0) is
\* NumThreads * Increments and the values the calls returned are exactly
\* 0 .. NumThreads * Increments - 1, each returned once.
C18_NoLostUpdate ==
    aop.name = "get_volatile_u64"
      => /\ aop.ret = U64(NumThreads * Increments)
         /\ Len(threads.returned) = NumThreads * Increments
         /\ \A n \in 0..(NumThreads * Increments - 1) :
                Cardinality({i \in DOMAIN threads.returned :
                                threads.returned[i] = U64(n)}) = 1

\* all threads have finished and the counter has been read
C18_Witness ==
    /\ aop.name = "get_volatile_u64"
    /\ aop.status = "ok"
    /\ \A t \in CounterThreads : threads.calls[t] = Increments
    /\ Len(threads.returned) = NumThreads * Increments

\* idle(w) with w > 0 has just been called
WorkTick(i) == i.call.name = "idle" /\ i.call.work_count > 0
\* idle(0) has just been called
IdleTick(i) == i.call.name = "idle" /\ i.call.work_count = 0

\* C20 as stated: idle(w) with w > 0 resets spins and yields to 0 and
\* park_duration to min_park, and the idle(0) call after it is handled in the
\* spin phase.
C20_WorkTickThenSpin ==
    [][ /\ (WorkTick(idle')
              => /\ idle'.strategy.spins = 0
                 /\ idle'.strategy.yields = 0
                 /\ idle'.strategy.park_duration
                      = idle'.strategy.min_park_duration)
        /\ (WorkTick(idle) /\ IdleTick(idle')
              => idle'.call.phase = "spin") ]_vars

\* C20, amended: the reset as stated; the idle(0) call after the work tick is
\* handled in the spin phase when max_spins > 0, in the yield phase when
\* max_spins = 0 < max_yields, and is handled in the park phase, where it
\* sleeps min_park, when both are 0.
C20_WorkTickResets ==
    [][ /\ (WorkTick(idle')
              => /\ idle'.strategy.spins = 0
                 /\ idle'.strategy.yields = 0
                 /\ idle'.strategy.park_duration
                      = idle'.strategy.min_park_duration)
        /\ (WorkTick(idle) /\ IdleTick(idle')
              => /\ (idle.strategy.max_spins > 0 => idle'.call.phase = "spin")
                 /\ (idle.strategy.max_spins = 0 /\ idle.strategy.max_yields > 0
                       => idle'.call.phase = "yield")
                 /\ (idle.strategy.max_spins = 0 /\ idle.strategy.max_yields = 0
                       => /\ idle'.call.phase \in {"park", "panic"}
                          /\ idle'.call.slept = idle.strategy.min_park_duration))
      ]_vars

\* a strategy that had backed off to a park longer than min_park was reset by
\* a work tick
C20_Witness ==
    /\ WorkTick(idle)
    /\ idle.strategy.max_spins > 0
    /\ idle.strategy.max_yields > 0
    /\ Duration_lt(idle.strategy.min_park_duration, idle.call.before)
    /\ idle.strategy.spins = 0
    /\ idle.strategy.yields = 0
    /\ idle.strategy.park_duration = idle.strategy.min_park_duration

\* C19: a thread blocked inside idle because the status was PARKING
\* eventually returns from idle once unpark() has moved the status out of
\* PARKING.
C19_UnparkReleases ==
    (/\ threads.idler.pc = "parked"
     /\ threads.controller.last = "unpark"
     /\ idle.strategy.status = RUNNING) ~> (threads.idler.pc = "running")

\* the phase and sleep that C21 states for the n-th idle(0) call (n = 1, 2,
\* ...) of a run on strategy b
StatedBackoff(b, n) ==
    IF n <= b.max_spins
    THEN [phase |-> "spin", slept |-> Nanos(0, 0)]
    ELSE IF n <= b.max_spins + b.max_yields
    THEN [phase |-> "yield", slept |-> Nanos(0, 0)]
    ELSE [phase |-> "park",
          slept |-> Duration_min(
                        Duration_times(b.min_park_duration,
                                       Pow2(n - b.max_spins - b.max_yields - 1)),
                        b.max_park_duration)]

\* both park durations of strategy b are below 2^63 ns
BelowTwoTo63(b) == b.min_park_duration.high = 0 /\ b.max_park_duration.high = 0

TypedCall(c) ==
    c.name \in {"get_u8", "put_u8", "get_T_with_order", "put_T_with_order",
                "get_T", "put_T"}
WritingCall(c) ==
    c.name \in {"put_u8", "put_T_with_order", "put_T", "put_bytes",
                "put_string_ascii", "put_string_utf8"}

\* C22: a buffer write other than put_natural_i32_ascii_from_end that returns
\* an error has changed no byte of the buffer.
C22_FailedWriteChangesNothing ==
    WritingCall(aop) /\ aop.status = "err" => abuf.bytes = aop.before

\* C23: with bounds checking enabled, a typed get or put of width W on a
\* buffer of capacity C succeeds at index = C - W, and at every index > C - W
\* returns IndexOutOfBounds {index, length: W, capacity: C} and touches no
\* byte.
C23_BoundsChecked ==
    TypedCall(aop) =>
        LET W == WidthOf(aop.T)
            C == abuf.capacity
        IN  /\ aop.index = C - W => aop.status = "ok"
            /\ usize_gt(aop.index, C - W)
                 => /\ aop.status = "err"
                    /\ aop.err = IndexOutOfBounds(aop.index, W, C)
                    /\ abuf.bytes = aop.before

\* C28: for an ASCII string s with index + 4 + len(s) <= capacity,
\* put_string_ascii(index, s) returns 4 + len(s), writes len(s) as a
\* little-endian u32 at index and the bytes of s after it, changes no other
\* byte, and a following get_string_ascii(index) returns s.
C28_StringAsciiRoundTrip ==
    LET length == RunsLen(aop.value)
        body   == size_add(aop.index, Size(4))
        end    == size_add(body, length)
        stated == /\ IsAsciiRuns(aop.value)
                  /\ ~size_gt(end, abuf.capacity)
    IN  /\ (aop.name = "put_string_ascii" /\ stated)
             => /\ aop.status = "ok"
                /\ aop.ret = size_add(Size(4), length)
                /\ u32_as_size(BytesOf(ReadRuns(abuf.runs, aop.index, Size(4))))
                     = length
                /\ ReadRuns(abuf.runs, body, length) = aop.value
                /\ ReadRuns(abuf.runs, Size(0), aop.index)
                     = ReadRuns(aop.before, Size(0), aop.index)
                /\ Normalize(DropRuns(abuf.runs, end))
                     = Normalize(DropRuns(aop.before, end))
        /\ (aop.name = "get_string_ascii" /\ stated)
             => aop.status = "ok" /\ aop.ret = aop.value

\* C29: after put_T_with_order(i, v, O) at an in-bounds index,
\* get_T_with_order(i, O) is v and get_T_with_order(i, BigEndian) is the byte
\* swap of get_T_with_order(i, LittleEndian); get_T and put_T behave as the
\* LittleEndian variants.
C29_ByteOrder ==
    /\ (aop.name = "put_T_with_order" /\ aop.status = "ok")
         => /\ get_T_with_order(aop.T, abuf, aop.index, aop.byte_order)
                 = {Ok(abuf, aop.value)}
            /\ \A be \in get_T_with_order(aop.T, abuf, aop.index, "BigEndian"),
                  le \in get_T_with_order(aop.T, abuf, aop.index, "LittleEndian") :
                  be.status = "ok" /\ le.status = "ok" /\ be.ret = swap_bytes(le.ret)
    /\ (aop.name = "put_T" /\ aop.status = "ok")
         => /\ put_T_with_order(aop.T, [abuf EXCEPT !.bytes = aop.before],
                                aop.index, aop.value, "LittleEndian")
                 = {Ok(abuf, <<>>)}
            /\ get_T(aop.T, abuf, aop.index) = {Ok(abuf, aop.value)}
            /\ get_T(aop.T, abuf, aop.index)
                 = get_T_with_order(aop.T, abuf, aop.index, "LittleEndian")
    /\ (/\ aop.name = "get_T_with_order"
        /\ aop.wrote # <<>>
        /\ aop.wrote[1].name = "put_T_with_order"
        /\ aop.wrote[1].T = aop.T)
         => /\ aop.status = "ok"
            /\ aop.wrote[1].byte_order = aop.byte_order
                 => aop.ret = aop.wrote[1].value
            /\ aop.wrote[1].byte_order # aop.byte_order
                 => aop.ret = swap_bytes(aop.wrote[1].value)
    /\ (/\ aop.name = "get_T"
        /\ aop.wrote # <<>>
        /\ aop.wrote[1].name \in {"put_T", "put_T_with_order"}
        /\ aop.wrote[1].T = aop.T)
         => /\ aop.status = "ok"
            /\ aop.wrote[1].byte_order \in {"", "LittleEndian"}
                 => aop.ret = aop.wrote[1].value
            /\ aop.wrote[1].byte_order = "BigEndian"
                 => aop.ret = swap_bytes(aop.wrote[1].value)

\* 0x04030201 was put as a BigEndian u32 and read back as a BigEndian u32
C29_Witness ==
    /\ aop.name = "get_T_with_order"
    /\ aop.T = "u32"
    /\ aop.byte_order = "BigEndian"
    /\ aop.wrote # <<>>
    /\ aop.wrote[1] = [name |-> "put_T_with_order", T |-> "u32",
                       byte_order |-> "BigEndian", value |-> <<1, 2, 3, 4>>]
    /\ aop.ret = <<1, 2, 3, 4>>
    /\ ReadLE(abuf.bytes, aop.index, 4) = <<4, 3, 2, 1>>

\* the shortest decimal text of an i32: no leading zeros, '-' before a
\* negative number
RECURSIVE NaturalText(_)
NaturalText(n) ==
    IF n < 10 THEN <<48 + n>> ELSE NaturalText(n \div 10) \o <<48 + (n % 10)>>
ShortestText(v) ==
    IF v = I32_MIN THEN Minus(DigitsOf(<<2, 1, 4, 7, 4, 8, 3, 6, 4, 8>>))
    ELSE IF v < 0 THEN Minus(NaturalText(-v))
    ELSE NaturalText(v)

\* the text lies inside the buffer when written at index
Fits(b, index, length) == index >= 0 /\ index + length <= b.capacity

\* C24: if L = put_i32_ascii(index, v) then parse_i32_ascii(index, L) = v,
\* for every i32 v; likewise put_i64_ascii / parse_i64_ascii, and the natural
\* pairs for every v >= 0.
C24_AsciiRoundTrip ==
    /\ (aop.name = "put_i32_ascii" /\ aop.status = "ok")
         => UnsafeBuffer_parse_i32_ascii(abuf, aop.index, aop.ret[1])
              = {Ok(abuf, aop.value)}
    /\ (aop.name = "put_i64_ascii" /\ aop.status = "ok")
         => UnsafeBuffer_parse_i64_ascii(abuf, aop.index, aop.ret[1])
              = {Ok(abuf, aop.value)}
    /\ (aop.name = "put_natural_i32_ascii" /\ aop.status = "ok")
         => UnsafeBuffer_parse_natural_i32_ascii(abuf, aop.index, aop.ret[1])
              = {Ok(abuf, aop.value)}
    /\ (aop.name = "put_natural_i64_ascii" /\ aop.status = "ok")
         => UnsafeBuffer_parse_natural_i64_ascii(abuf, aop.index, aop.ret[1])
              = {Ok(abuf, aop.value)}

\* C25: put_i32_ascii(index, v) writes the shortest decimal text of v at
\* index and returns its length: "0" and 1 for v = 0, "-2147483648" and 11
\* for v = i32::MIN.
C25_ShortestDecimal ==
    (/\ aop.name = "put_i32_ascii"
     /\ Fits(abuf, aop.index, Len(ShortestText(aop.value[1]))))
      => /\ aop.status = "ok"
         /\ aop.ret = <<Len(ShortestText(aop.value[1]))>>
         /\ abuf.bytes = WriteLE(aop.before, aop.index, ShortestText(aop.value[1]))

\* the digits of a text without its leading zeros
RECURSIVE Significant(_)
Significant(text) ==
    IF text = <<>> \/ text[1] # 48 THEN text ELSE Significant(Tail(text))
AllDigits(text) == \A i \in 1..Len(text) : text[i] \in 48..57
\* a text of digits is above the text max of a number
RECURSIVE TextAbove(_, _)
TextAbove(text, max) ==
    IF Len(text) # Len(max) THEN Len(text) > Len(max)
    ELSE IF text = <<>> THEN FALSE
    ELSE IF text[1] # max[1] THEN text[1] > max[1]
    ELSE TextAbove(Tail(text), Tail(max))
\* the number a text of at most 9 digits denotes
RECURSIVE SmallValue(_)
SmallValue(text) ==
    IF text = <<>> THEN 0
    ELSE 10 * SmallValue(SubSeq(text, 1, Len(text) - 1)) + (text[Len(text)] - 48)
\* the digits of a text before its last n, and its last n
Front(text, n) == SubSeq(text, 1, IF Len(text) > n THEN Len(text) - n ELSE 0)
Back(text, n) == SubSeq(text, (IF Len(text) > n THEN Len(text) - n ELSE 0) + 1, Len(text))
\* the number that a text of digits within u64 denotes, as <<h, m, l>>
TextValue(text) ==
    <<SmallValue(Front(Significant(text), 18)),
      SmallValue(Back(Front(Significant(text), 9), 9)),
      SmallValue(Back(Significant(text), 9))>>
I32_MAX_TEXT == DigitsOf(<<2, 1, 4, 7, 4, 8, 3, 6, 4, 7>>)
I64_MAX_TEXT == DigitsOf(<<9, 2, 2, 3, 3, 7, 2, 0, 3, 6, 8, 5, 4, 7, 7, 5, 8, 0, 7>>)

\* C26: parse_natural_i32_ascii(index, length), and the i64 variant, returns
\* an AsciiNumberFormat error when length is 0, when a byte of the window is
\* no digit, or when the number overflows the type; otherwise it returns the
\* decimal value of the digits.
C26_ParseNatural ==
    (/\ aop.name \in {"parse_natural_i32_ascii", "parse_natural_i64_ascii"}
     /\ aop.length >= 0
     /\ Fits(abuf, aop.index, aop.length))
      => LET text == ReadLE(abuf.bytes, aop.index, aop.length)
             max == IF aop.name = "parse_natural_i32_ascii"
                    THEN I32_MAX_TEXT ELSE I64_MAX_TEXT
         IN  IF \/ aop.length = 0
                \/ ~AllDigits(text)
                \/ TextAbove(Significant(text), max)
             THEN aop.status = "err" /\ aop.err = AsciiNumberFormat
             ELSE /\ aop.status = "ok"
                  /\ aop.ret = IF aop.name = "parse_natural_i32_ascii"
                               THEN <<TextValue(text)[2] * Base + TextValue(text)[3]>>
                               ELSE <<0>> \o TextValue(text)

NaturalWriter(c) ==
    c.name \in {"put_natural_i32_ascii", "put_natural_i64_ascii",
                "put_natural_padded_i32_ascii", "put_natural_i32_ascii_from_end"}
NegativeValue(c) ==
    IF c.name = "put_natural_i64_ascii" THEN i64_is_negative(c.value)
    ELSE c.value[1] < 0

\* C27: a natural-number writer called with a negative value returns an
\* AsciiNumberFormat error and leaves every byte of the buffer unchanged.
C27_NaturalRejectsNegative ==
    NaturalWriter(aop) /\ NegativeValue(aop)
      => /\ aop.status = "err"
         /\ aop.err = AsciiNumberFormat
         /\ abuf.bytes = aop.before

\* put_natural_i32_ascii(2, -123) on a buffer with room for "-123"
C27_Witness ==
    /\ aop.name = "put_natural_i32_ascii"
    /\ aop.value = <<-123>>
    /\ aop.index = 2
    /\ aop.status = "err"
    /\ aop.err = AsciiNumberFormat
    /\ abuf.bytes = aop.before

\* C30: a get_volatile_T_with_order(index, O) at an aligned index returns the
\* value that the last put_volatile_T_with_order or put_ordered_T_with_order
\* stored there with the same T and O, or the sum that add_ordered_u64 calls
\* left there, when no call wrote to that slot since; and a slot that held x
\* holds x plus the increments of the add_ordered_u64 calls made on it,
\* modulo 2^64
C30_OrderedRoundTrip ==
    /\ (/\ aop.name = "get_volatile_with_order"
        /\ aop.status = "ok"
        /\ aop.index % WidthOf(aop.T) = 0
        /\ aop.stored[aop.index] # <<>>
        /\ aop.stored[aop.index][1].T = aop.T
        /\ aop.stored[aop.index][1].byte_order = aop.byte_order)
       => aop.ret = aop.stored[aop.index][1].value
    /\ \A index \in DOMAIN aop.stored :
          (/\ aop.stored[index] # <<>>
           /\ aop.stored[index][1].adds > 0
           /\ index % 8 = 0)
          => ReadLE(abuf.bytes, index, 8) = aop.stored[index][1].value

\* C31: a put_ordered_u32, put_ordered_u32_with_order, compare_and_set_u32 or
\* get_and_add_u32 call at a 4-byte aligned index with index + 4 <= capacity
\* changes no byte outside [index, index + 4): the four bytes after them and
\* the bytes at and beyond capacity stay as they were
C31_FourByteFrame ==
    [][(/\ aop'.name \in {"put_ordered_u32", "put_ordered_u32_with_order",
                          "compare_and_set_u32", "get_and_add_u32"}
        /\ aop'.index % 4 = 0
        /\ aop'.index + 4 <= abuf.capacity
        /\ aop'.status = "ok")
       => \A a \in DOMAIN abuf.bytes :
             (a < aop'.index \/ a >= aop'.index + 4)
                => abuf'.bytes[a] = abuf.bytes[a]]_vars

SentinelSlots(keys) == Cardinality({i \in DOMAIN keys : keys[i] = MISSING_VALUE})

\* the number of slots the probe loop of find_index reads from slot index on
RECURSIVE ProbeReads(_, _, _)
ProbeReads(keys, key, index) ==
    IF keys[index] = MISSING_VALUE \/ keys[index] = key THEN 1
    ELSE 1 + ProbeReads(keys, key, BitAnd(index + 1, VecLen(keys) - 1))

\* the number of slots the walks of compact_chain(deleted_index) read, its
\* recursive calls included
RECURSIVE CompactReads(_, _, _)
CompactReads(m, deleted_index, index) ==
    IF m.keys[index] = MISSING_VALUE THEN 1
    ELSE LET key == m.keys[index]
             ideal_index == IdealIndex(key, m.mask)
         IN  IF IntHashMap_should_move_entry(deleted_index, index, ideal_index)
             THEN 1 + CompactReads([m EXCEPT !.keys[deleted_index] = key,
                                             !.keys[index] = MISSING_VALUE],
                                   index, BitAnd(index + 1, m.mask))
             ELSE 1 + CompactReads(m, deleted_index, BitAnd(index + 1, m.mask))

\* C33: in every reachable state the keys arrays of the map and of the set
\* hold the sentinel in at least capacity - resize_threshold >= 1 slots, so
\* the probe loop of find_index stops within capacity reads for every key,
\* stored or absent, and so do the walk and the recursion of compact_chain
\* after the removal of any stored key
C33_ProbesStop ==
    /\ VecLen(map.keys) - map.resize_threshold >= 1
    /\ SentinelSlots(map.keys) >= VecLen(map.keys) - map.resize_threshold
    /\ SentinelSlots(set.keys) >= VecLen(set.keys) - set.resize_threshold
    /\ \A key \in WideKeys :
          /\ ProbeReads(map.keys, key, IdealIndex(key, map.mask)) <= VecLen(map.keys)
          /\ ProbeReads(set.keys, key, IdealIndex(key, set.mask)) <= VecLen(set.keys)
    /\ \A index \in DOMAIN map.keys :
          map.keys[index] # MISSING_VALUE
             => CompactReads([map EXCEPT !.keys[index] = MISSING_VALUE], index,
                             BitAnd(index + 1, map.mask)) <= VecLen(map.keys)

\* a table of capacity 8 holds five keys, the most it takes, and the probe for
\* an absent key runs over the end of the array to a sentinel slot
C33_Witness ==
    /\ VecLen(map.keys) = 8
    /\ SentinelSlots(map.keys) = 3
    /\ \E key \in WideKeys :
          /\ ~IntHashMap_contains_key(map, key)
          /\ IntHashMap_find_index(map, key)[1] < IdealIndex(key, map.mask)
          /\ ProbeReads(map.keys, key, IdealIndex(key, map.mask)) >= 3

\* C34: an IntHashSet and an IntHashMap built with the same capacity hint and
\* given the same insert, remove and clear calls have the same keys array,
\* size, mask and resize_threshold in every state
C34_SetIsMapWithoutValues ==
    /\ set.keys = map.keys
    /\ set.size = map.size
    /\ set.mask = map.mask
    /\ set.resize_threshold = map.resize_threshold
    /\ DOMAIN set = (DOMAIN map) \ {"values"}

\* after a resize to 16 slots a stored key was removed from a table that
\* still holds four keys, one of them away from its ideal slot
C34_Witness ==
    /\ op.name = "remove"
    /\ ret # None
    /\ set_ret
    /\ VecLen(set.keys) = 16
    /\ set.size >= 4
    /\ \E i \in DOMAIN set.keys :
          set.keys[i] # MISSING_VALUE /\ IdealIndex(set.keys[i], set.mask) # i

\* C37: whatever new, park, unpark, idle and reset calls are made, the status
\* word holds RUNNING or PARKING in every state, and no idle call takes the
\* branch that delegates to the backoff strategy
C37_StatusRunningOrParking ==
    /\ idle.strategy.status \in {RUNNING, PARKING}
    /\ idle.call.name = "idle" => idle.call.phase \in {"busy_spin", "thread_park"}
    /\ idle.strategy.backoff_strategy.spins = 0
    /\ idle.strategy.backoff_strategy.yields = 0
    /\ idle.strategy.backoff_strategy.park_duration
         = BackoffIdleStrategy_default.min_park_duration

\* the controller has parked and unparked the strategy, and an idle call made
\* after the unpark found RUNNING and went to the busy spin
C37_Witness ==
    /\ threads.controller.calls >= 2
    /\ threads.controller.last = "unpark"
    /\ threads.idler.calls >= 2
    /\ idle.call.name = "idle"
    /\ idle.call.phase = "busy_spin"
    /\ idle.strategy.status = RUNNING

\* C38: a BackoffIdleStrategy built with min_park <= max_park has
\* min_park <= park_duration <= max_park in every state, no idle call sleeps
\* longer than max_park, and spins <= max_spins and yields <= max_yields.
C38_ParkWithinBounds ==
    Duration_le(idle.strategy.min_park_duration, idle.strategy.max_park_duration)
        => /\ Duration_le(idle.strategy.min_park_duration,
                          idle.strategy.park_duration)
           /\ Duration_le(idle.strategy.park_duration,
                          idle.strategy.max_park_duration)
           /\ Duration_le(idle.call.slept, idle.strategy.max_park_duration)
           /\ idle.strategy.spins <= idle.strategy.max_spins
           /\ idle.strategy.yields <= idle.strategy.max_yields

\* the messages the producer has published and the consumer has not taken
\* out of the ring by advancing the tail
Unconsumed ==
    threads.producer.published - Len(threads.consumer.received)
        + (IF threads.consumer.pc = "advance" THEN 1 ELSE 0)

\* C35: in every interleaving of the ring-buffer producer and consumer the
\* consumer reads the messages 0, 1, 2, ... in the order produced, none lost,
\* duplicated or overwritten before it is consumed; no thread panics (the
\* "Message order violation" panic included) and at most max_messages - 1
\* slots are unconsumed.
C35_RingInOrder ==
    /\ threads.producer.pc # "panicked"
    /\ threads.consumer.pc # "panicked"
    /\ threads.mutex # "poisoned"
    /\ threads.consumer.received
         = [i \in 1..Len(threads.consumer.received) |-> i - 1]
    /\ Len(threads.consumer.received) = threads.consumer.messages_received
    /\ Len(threads.consumer.received) <= threads.producer.published
    /\ \A m \in Len(threads.consumer.received)..(threads.producer.published - 1) :
          ReadLE(abuf.bytes, data_offset_of(m), 8) = U64(m)
    /\ Unconsumed <= max_messages - 1
    /\ u64_value(ReadLE(abuf.bytes, HEAD_INDEX, 8))
         = threads.producer.published % max_messages
    /\ (u64_value(ReadLE(abuf.bytes, HEAD_INDEX, 8)) + max_messages
          - u64_value(ReadLE(abuf.bytes, TAIL_INDEX, 8))) % max_messages
         = Unconsumed

\* the ring has wrapped around and is full: the producer found no room for
\* its next message and went to idle, with max_messages - 1 messages
\* unconsumed and the first slot used a second time
C35_Witness ==
    /\ threads.producer.pc = "idle"
    /\ threads.producer.published > max_messages
    /\ Unconsumed = max_messages - 1
    /\ Len(threads.consumer.received) >= 2
    /\ ReadLE(abuf.bytes, data_offset_of(0), 8) = U64(max_messages)

\* C36: with both threads scheduled fairly and a fair mutex, the producer
\* eventually publishes all the messages and the consumer eventually
\* receives all of them, and both threads end.
C36_BothTerminate ==
    <>(/\ threads.producer.pc = "done"
       /\ threads.consumer.pc = "done"
       /\ threads.producer.published = RingMessages
       /\ threads.consumer.messages_received = RingMessages)

\* both threads have ended, after the producer had waited on a full ring
\* and the consumer on an empty one
C36_Witness ==
    /\ threads.producer.pc = "done"
    /\ threads.consumer.pc = "done"
    /\ threads.mutex = "unlocked"
    /\ threads.producer.published = RingMessages
    /\ Len(threads.consumer.received) = RingMessages
    /\ threads.producer.current_tail # 0
    /\ next_head_of(threads.producer.current_head) # threads.producer.current_tail

====
